---- MODULE Spec2Model ----
(***************************************************************************)
(* Verification model of the shuguri API services:                         *)
(*   - DocumentGenerator's llm_cache lookup / save (generator.ts)          *)
(*   - the compile routes' per-IP rate limiter (routes/compile.ts)         *)
(*   - the /api/projects routes over the projects table                    *)
(*   - chunkText and DocumentProcessor.ingestDocument / ingestBatch        *)
(*   - the diff service's getUpgradePath / analyzeDiff                     *)
(* Each subsystem has its own variables, initial condition, next-state     *)
(* relation and specification; the variables of the other subsystems stay  *)
(* at their idle values.                                                   *)
(***************************************************************************)
EXTENDS Integers, Sequences, FiniteSets, TLC

VARIABLES
  llm_cache,      \* rows of table llm_cache: [id, prompt_hash, response, model, expires_at]
  clock,          \* wall clock read by new Date(), in hours
  gen,            \* per generate() call: position and locals
  requestCounts,  \* Map<ip, {count, resetAt}> of routes/compile.ts
  rlNow,          \* Date.now() seen by the compile routes, in ms
  rlLast,         \* the last compile-route request and its rate-limit outcome
  rlWindow,       \* per ip key: when its current window opened, requests admitted in it
  projects,       \* rows of table projects: [id, user_id, name]
  projLast,       \* the last /api/projects request and the rows it touched
  chunkIn,        \* the text (as segments) and options given to chunkText
  chunkOut,       \* what chunkText returned for chunkIn
  spec_documents, \* rows of table spec_documents: their metadata, in insert order
  ingestOut,      \* how ingestDocument(chunkIn) ended
  diffFiles,      \* data/diffs/<source>-<target>.json, per pair key
  diffDataCache,  \* module-level Map<string, StoredDiffData>
  diffCalls,      \* per analyzeDiff() call: position and locals
  batch,          \* one ingestBatch() call: position and locals
  env,            \* process.env: the settings the routes read
  comp,           \* the compile / test route request being served
  wb,             \* a Wandbox API response and the CompileResult parsed from it
  svc,            \* the last answer of a route that needs configured services
  upload,         \* one upload job and the position of its background processing
  tr              \* one test-run or test-compare request and its response

cacheVars == <<llm_cache, clock, gen>>
rateVars  == <<requestCounts, rlNow, rlLast, rlWindow>>
projVars  == <<projects, projLast>>
chunkVars == <<chunkIn, chunkOut, spec_documents, ingestOut>>
diffVars  == <<diffFiles, diffDataCache, diffCalls>>
batchVars == <<batch>>
compVars  == <<env, comp>>
wbVars    == <<wb>>
svcVars   == <<svc>>
uploadVars == <<upload>>
trVars    == <<tr>>

vars == <<cacheVars, rateVars, projVars, chunkVars, diffVars, batchVars, compVars, wbVars, svcVars, uploadVars, trVars>>

exceptCache == <<rateVars, projVars, chunkVars, diffVars, batchVars, compVars, wbVars, svcVars, uploadVars, trVars>>
exceptRate  == <<cacheVars, projVars, chunkVars, diffVars, batchVars, compVars, wbVars, svcVars, uploadVars, trVars>>
exceptProj  == <<cacheVars, rateVars, chunkVars, diffVars, batchVars, compVars, wbVars, svcVars, uploadVars, trVars>>
exceptChunk == <<cacheVars, rateVars, projVars, diffVars, batchVars, compVars, wbVars, svcVars, uploadVars, trVars>>
exceptDiff  == <<cacheVars, rateVars, projVars, chunkVars, batchVars, compVars, wbVars, svcVars, uploadVars, trVars>>
exceptBatch == <<cacheVars, rateVars, projVars, chunkVars, diffVars, compVars, wbVars, svcVars, uploadVars, trVars>>
exceptUpload == <<cacheVars, rateVars, projVars, chunkVars, diffVars, batchVars, compVars,
                 wbVars, svcVars, trVars>>
exceptTests  == <<cacheVars, rateVars, projVars, chunkVars, diffVars, batchVars, compVars,
                 wbVars, svcVars, uploadVars>>

Max(a, b) == IF a >= b THEN a ELSE b
Min(a, b) == IF a <= b THEN a ELSE b

(***************************************************************************)
(* 1. DocumentGenerator: llm_cache                                         *)
(***************************************************************************)

CACHE_EXPIRY_HOURS == 24

\* Bounds of the cache model.
ClockStep == 12      \* hours the clock advances per tick
MaxClockTicks == 3   \* ticks of the clock

GenCalls      == {"g1", "g2"}
SystemPrompts == {"sys"}
UserPrompts   == {"userA", "userB"}
\* LLMProvider.generate returns the text block, or '' when there is none.
Responses     == {"", "doc1", "doc2"}

\* `${systemPrompt}\n\n${userPrompt}`
FullPrompt(systemPrompt, userPrompt) == systemPrompt \o "\n\n" \o userPrompt

\* createHash('sha256').update(prompt).digest('hex'): a digest that is a
\* function of the prompt text alone and (collision resistance) distinct for
\* distinct texts.
hashPrompt(prompt) == <<"sha256", prompt>>

\* JavaScript truthiness of a `string | null`.
Truthy(v) == v.found /\ v.response # ""

NullResponse == [found |-> FALSE, response |-> ""]

\* .from('llm_cache').select('response').eq('prompt_hash', h)
\*    .gt('expires_at', now).single()
\* single() yields an error unless exactly one row matches.
CheckCacheRows(table, promptHash, now) ==
  {r \in table : r.prompt_hash = promptHash /\ r.expires_at > now}

checkCache(table, promptHash, now) ==
  LET rows == CheckCacheRows(table, promptHash, now)
  IN IF Cardinality(rows) = 1
       THEN [found |-> TRUE, response |-> (CHOOSE r \in rows : TRUE).response]
       ELSE NullResponse

\* An insert into a table without the UNIQUE constraint on prompt_hash.
Upsert_noUnique(table, values) ==
  [table |-> table \cup {[id |-> Cardinality(table) + 1,
                          prompt_hash |-> values.prompt_hash,
                          response |-> values.response,
                          model |-> values.model,
                          expires_at |-> values.expires_at]},
   error |-> FALSE]

\* Postgres INSERT ... ON CONFLICT (id) DO UPDATE, as PostgREST issues it for
\* .upsert(values) without onConflict: the conflict target is the primary key.
\* The values carry no id, so id is gen_random_uuid() and never conflicts; a
\* row with the same prompt_hash violates UNIQUE(prompt_hash) and the
\* statement fails (the error is returned in the result, not thrown).
Upsert(table, values) ==
  IF \E r \in table : r.prompt_hash = values.prompt_hash
    THEN [table |-> table, error |-> TRUE]
    ELSE [table |-> table \cup {[id |-> Cardinality(table) + 1,
                                  prompt_hash |-> values.prompt_hash,
                                  response |-> values.response,
                                  model |-> values.model,
                                  expires_at |-> values.expires_at]},
          error |-> FALSE]

\* expiresAt.setHours(expiresAt.getHours() + CACHE_EXPIRY_HOURS)
ExpiresAt(now) == now + CACHE_EXPIRY_HOURS

\* saveToCache: the upsert's outcome; the code awaits it and drops it.
saveToCache(table, promptHash, response, model, now) ==
  Upsert(table, [prompt_hash |-> promptHash, response |-> response,
                 model |-> model, expires_at |-> ExpiresAt(now)])

GenIdle ==
  [pc |-> "idle", promptHash |-> <<>>, cachedResponse |-> NullResponse,
   content |-> "", cached |-> FALSE, llmCalls |-> 0,
   lookupValid |-> FALSE, lookupResponse |-> "", savedFresh |-> FALSE,
   saveError |-> FALSE, alone |-> TRUE]

GenAllIdle == [c \in GenCalls |-> GenIdle]

\* generate(), lines 91-141: the prompt is built and hashed.
GenerateStart(c, systemPrompt, userPrompt) ==
  /\ gen[c].pc = "idle"
  /\ gen' = [d \in GenCalls |->
       IF d = c
         THEN [GenIdle EXCEPT
                 !.pc = "checkCache",
                 !.promptHash = hashPrompt(FullPrompt(systemPrompt, userPrompt)),
                 !.alone = \A e \in GenCalls \ {c} : gen[e].pc = "idle"]
         ELSE IF gen[d].pc # "idle" THEN [gen[d] EXCEPT !.alone = FALSE]
         ELSE gen[d]]
  /\ UNCHANGED <<llm_cache, clock>>
  /\ UNCHANGED exceptCache

\* generate(), lines 142-149: await checkCache, then the branch on its result.
GenerateCheckCache(c) ==
  /\ gen[c].pc = "checkCache"
  /\ LET res   == checkCache(llm_cache, gen[c].promptHash, clock)
         valid == {r \in llm_cache : r.prompt_hash = gen[c].promptHash
                                      /\ r.expires_at > clock}
     IN gen' = [gen EXCEPT ![c] =
          [@ EXCEPT !.cachedResponse = res,
                    !.lookupValid = (valid # {}),
                    !.lookupResponse = IF valid # {}
                                         THEN (CHOOSE r \in valid : TRUE).response
                                         ELSE "",
                    !.content = IF Truthy(res) THEN res.response ELSE "",
                    !.cached = Truthy(res),
                    !.pc = IF Truthy(res) THEN "done" ELSE "llm"]]
  /\ UNCHANGED <<llm_cache, clock>>
  /\ UNCHANGED exceptCache

\* generate(), line 152: await llmProvider.generate(...) resolves.
GenerateLLM(c, response) ==
  /\ gen[c].pc = "llm"
  /\ gen' = [gen EXCEPT ![c] =
       [@ EXCEPT !.content = response, !.llmCalls = @ + 1, !.pc = "save"]]
  /\ UNCHANGED <<llm_cache, clock>>
  /\ UNCHANGED exceptCache

\* generate(), line 152: llmProvider.generate(...) rejects; generate rejects.
GenerateLLMFails(c) ==
  /\ gen[c].pc = "llm"
  /\ gen' = [gen EXCEPT ![c] = [@ EXCEPT !.llmCalls = @ + 1, !.pc = "rejected"]]
  /\ UNCHANGED <<llm_cache, clock>>
  /\ UNCHANGED exceptCache

\* generate(), line 155: await saveToCache(promptHash, content, name).
GenerateSave(c) ==
  /\ gen[c].pc = "save"
  /\ llm_cache' = saveToCache(llm_cache, gen[c].promptHash, gen[c].content,
                              "claude", clock).table
  /\ gen' = [gen EXCEPT ![c] =
       [@ EXCEPT !.pc = "done",
                 !.saveError = saveToCache(llm_cache, gen[c].promptHash,
                                           gen[c].content, "claude", clock).error,
                 !.savedFresh =
                   \E r \in llm_cache' :
                     /\ r.prompt_hash = gen[c].promptHash
                     /\ r.response = gen[c].content
                     /\ r.expires_at = clock + CACHE_EXPIRY_HOURS]]
  /\ UNCHANGED clock
  /\ UNCHANGED exceptCache

\* generate(), lines 158-171: the result (or the rejection) reaches the caller.
GenerateReturn(c) ==
  /\ gen[c].pc \in {"done", "rejected"}
  /\ gen' = [gen EXCEPT ![c] = GenIdle]
  /\ UNCHANGED <<llm_cache, clock>>
  /\ UNCHANGED exceptCache

ClockTick ==
  /\ clock < MaxClockTicks * ClockStep
  /\ clock' = clock + ClockStep
  /\ UNCHANGED <<llm_cache, gen>>
  /\ UNCHANGED exceptCache

NextCache ==
  \/ \E c \in GenCalls, s \in SystemPrompts, u \in UserPrompts : GenerateStart(c, s, u)
  \/ \E c \in GenCalls : GenerateCheckCache(c)
  \/ \E c \in GenCalls, r \in Responses : GenerateLLM(c, r)
  \/ \E c \in GenCalls : GenerateLLMFails(c)
  \/ \E c \in GenCalls : GenerateSave(c)
  \/ \E c \in GenCalls : GenerateReturn(c)
  \/ ClockTick

(***************************************************************************)
(* 2. Compile routes: per-IP rate limiter                                  *)
(***************************************************************************)

RATE_LIMIT  == 10
RATE_WINDOW == 60000

\* Bounds of the rate-limiter model.
RateStep     == 60000   \* ms Date.now() advances per tick
MaxRateTicks == 2       \* ticks of Date.now()

\* Header values a request may carry ("" = header absent).
ForwardedFor == {"", "10.0.0.1"}
RealIp       == {"", "10.0.0.1"}
\* Statuses the rest of a compile handler may answer once admitted.
HandlerStatuses == {200, 500}

\* c.req.header('x-forwarded-for') || c.req.header('x-real-ip') || 'unknown'
ClientIp(xff, xreal) ==
  IF xff # "" THEN xff ELSE IF xreal # "" THEN xreal ELSE "unknown"

EmptyMap == [k \in {} |-> 0]

MapSet(map, key, value) ==
  [k \in DOMAIN map \cup {key} |-> IF k = key THEN value ELSE map[k]]

\* checkRateLimit with the limit test off by one (count > RATE_LIMIT).
checkRateLimit_offByOne(map, ip, now) ==
  IF ip \notin DOMAIN map \/ map[ip].resetAt < now
    THEN [allowed |-> TRUE,
          map |-> [k \in DOMAIN map \cup {ip} |->
                     IF k = ip THEN [count |-> 1, resetAt |-> now + RATE_WINDOW]
                     ELSE map[k]]]
    ELSE IF map[ip].count > RATE_LIMIT
      THEN [allowed |-> FALSE, map |-> map]
      ELSE [allowed |-> TRUE,
            map |-> [map EXCEPT ![ip].count = @ + 1]]

\* checkRateLimit(ip): the boolean returned and the Map afterwards.
checkRateLimit(map, ip, now) ==
  IF ip \notin DOMAIN map \/ map[ip].resetAt < now
    THEN [allowed |-> TRUE,
          map |-> MapSet(map, ip, [count |-> 1, resetAt |-> now + RATE_WINDOW])]
    ELSE IF map[ip].count >= RATE_LIMIT
      THEN [allowed |-> FALSE, map |-> map]
      ELSE [allowed |-> TRUE,
            map |-> MapSet(map, ip, [count |-> map[ip].count + 1,
                                     resetAt |-> map[ip].resetAt])]

NoRequest == [route |-> "none"]

\* The rate-limit prologue shared by both handlers, and what is recorded of
\* the request: the key, the record found, the outcome and the status.
RateLimited(route, xff, xreal, status) ==
  LET ip  == ClientIp(xff, xreal)
      res == checkRateLimit(requestCounts, ip, rlNow)
      opens == ip \notin DOMAIN requestCounts \/ requestCounts[ip].resetAt < rlNow
  IN /\ requestCounts' = res.map
     /\ rlLast' = [route |-> route, ip |-> ip, at |-> rlNow,
                   had |-> ip \in DOMAIN requestCounts,
                   before |-> IF ip \in DOMAIN requestCounts
                                THEN requestCounts[ip]
                                ELSE [count |-> 0, resetAt |-> 0],
                   admitted |-> res.allowed,
                   status |-> IF res.allowed THEN status ELSE 429]
     /\ rlWindow' =
          IF ~res.allowed THEN rlWindow
          ELSE IF opens
            THEN MapSet(rlWindow, ip, [openedAt |-> rlNow, admitted |-> 1,
                                       routes |-> {route}])
            ELSE MapSet(rlWindow, ip, [openedAt |-> rlWindow[ip].openedAt,
                                       admitted |-> rlWindow[ip].admitted + 1,
                                       routes |-> rlWindow[ip].routes \cup {route}])
     /\ UNCHANGED rlNow
     /\ UNCHANGED exceptRate

\* compileRouter.post('/')
CompilePost(xff, xreal, status) == RateLimited("compile", xff, xreal, status)

\* compileRouter.post('/execute')
ExecutePost(xff, xreal, status) == RateLimited("execute", xff, xreal, status)

RateTick ==
  /\ rlNow < MaxRateTicks * RateStep
  /\ rlNow' = rlNow + RateStep
  /\ UNCHANGED <<requestCounts, rlLast, rlWindow>>
  /\ UNCHANGED exceptRate

NextRate ==
  \/ \E xff \in ForwardedFor, xreal \in RealIp, st \in HandlerStatuses :
       CompilePost(xff, xreal, st)
  \/ \E xff \in ForwardedFor, xreal \in RealIp, st \in HandlerStatuses :
       ExecutePost(xff, xreal, st)
  \/ RateTick

\* The same limiter over a finer clock, with a log of when requests were
\* admitted: per ip key, the number admitted at each clock value.
SlideStep     == 30000
MaxSlideTicks == 3

LogAdd(log, at) ==
  [t \in DOMAIN log \cup {at} |-> IF t \in DOMAIN log
                                    THEN log[t] + (IF t = at THEN 1 ELSE 0)
                                    ELSE 1]

RECURSIVE SumOver(_, _)
SumOver(log, times) ==
  IF times = {} THEN 0
  ELSE LET t == CHOOSE x \in times : TRUE
       IN log[t] + SumOver(log, times \ {t})

\* The requests of a log admitted at a time t with from <= t < to.
AdmittedWithin(log, from, to) ==
  SumOver(log, {t \in DOMAIN log : from <= t /\ t < to})

\* A request to either compile route: the rate-limit prologue.
LoggedPost(route, xff, xreal) ==
  LET ip  == ClientIp(xff, xreal)
      res == checkRateLimit(requestCounts, ip, rlNow)
  IN /\ requestCounts' = res.map
     /\ rlWindow' =
          IF res.allowed
            THEN MapSet(rlWindow, ip,
                        LogAdd(IF ip \in DOMAIN rlWindow THEN rlWindow[ip] ELSE EmptyMap,
                               rlNow))
            ELSE rlWindow
     /\ UNCHANGED <<rlNow, rlLast>>
     /\ UNCHANGED exceptRate

LoggedTick ==
  /\ rlNow < MaxSlideTicks * SlideStep
  /\ rlNow' = rlNow + SlideStep
  /\ UNCHANGED <<requestCounts, rlLast, rlWindow>>
  /\ UNCHANGED exceptRate

NextRateLog ==
  \/ \E route \in {"compile", "execute"}, xreal \in RealIp :
       LoggedPost(route, "10.0.0.1", xreal)
  \/ LoggedTick

(***************************************************************************)
(* 3. /api/projects over the projects table                                *)
(***************************************************************************)

\* Bound of the projects model.
MaxProjects == 2     \* rows the projects table may hold

Users        == {"alice", "bob"}
NullUser     == "NULL"           \* user_id IS NULL
ProjectNames == {"n1", "n2"}
ProjectIds   == 1..MaxProjects

\* The key lib/supabase.ts creates its client with: SUPABASE_SERVICE_ROLE_KEY.
\* Requests made with the service role bypass row level security.
ClientRole == "service_role"

\* Rows of projects a statement of the API's client can see, change or
\* delete: the USING (auth.uid() = user_id) policies apply to every role
\* but the service role.
RlsVisible(rows, uid) ==
  IF ClientRole = "service_role" THEN rows ELSE {r \in rows : r.user_id = uid}

FreshProjectId == CHOOSE i \in ProjectIds : \A r \in projects : r.id # i

NoProjectRequest == [op |-> "none"]

\* A signed-in user inserts a project of their own, as the policy
\* "Users can create own projects" (WITH CHECK auth.uid() = user_id) admits.
OwnerInsert(u, name) ==
  /\ Cardinality(projects) < MaxProjects
  /\ projects' = projects \cup {[id |-> FreshProjectId, user_id |-> u, name |-> name]}
  /\ projLast' = [op |-> "ownerInsert", caller |-> u, rows |-> {}, status |-> 201]
  /\ UNCHANGED exceptProj

\* projectsRouter.get('/')
ListProjects(caller) ==
  /\ projLast' = [op |-> "list", caller |-> caller,
                  rows |-> RlsVisible(projects, NullUser), status |-> 200]
  /\ UNCHANGED projects
  /\ UNCHANGED exceptProj

\* projectsRouter.get('/:id')
GetProject(caller, id) ==
  LET hit == {r \in RlsVisible(projects, NullUser) : r.id = id}
  IN /\ projLast' = [op |-> "get", caller |-> caller, rows |-> hit,
                     status |-> IF hit = {} THEN 404 ELSE 200]
     /\ UNCHANGED projects
     /\ UNCHANGED exceptProj

\* projectsRouter.post('/'): the insert names no user_id.
CreateProject(caller, name) ==
  /\ Cardinality(projects) < MaxProjects
  /\ projects' = projects \cup
       {[id |-> FreshProjectId, user_id |-> NullUser, name |-> name]}
  /\ projLast' = [op |-> "create", caller |-> caller, rows |-> {}, status |-> 201]
  /\ UNCHANGED exceptProj

\* projectsRouter.put('/:id')
UpdateProject(caller, id, name) ==
  LET hit == {r \in RlsVisible(projects, NullUser) : r.id = id}
  IN /\ projects' = (projects \ hit) \cup {[r EXCEPT !.name = name] : r \in hit}
     /\ projLast' = [op |-> "update", caller |-> caller, rows |-> hit,
                     status |-> IF hit = {} THEN 404 ELSE 200]
     /\ UNCHANGED exceptProj

\* projectsRouter.delete('/:id')
DeleteProject(caller, id) ==
  LET hit == {r \in RlsVisible(projects, NullUser) : r.id = id}
  IN /\ projects' = projects \ hit
     /\ projLast' = [op |-> "delete", caller |-> caller, rows |-> hit, status |-> 200]
     /\ UNCHANGED exceptProj

NextProj ==
  \/ \E u \in Users, n \in ProjectNames : OwnerInsert(u, n)
  \/ \E u \in Users : ListProjects(u)
  \/ \E u \in Users, i \in ProjectIds : GetProject(u, i)
  \/ \E u \in Users, n \in ProjectNames : CreateProject(u, n)
  \/ \E u \in Users, i \in ProjectIds, n \in ProjectNames : UpdateProject(u, i, n)
  \/ \E u \in Users, i \in ProjectIds : DeleteProject(u, i)

(***************************************************************************)
(* 4. chunkText and DocumentProcessor.ingestDocument                       *)
(***************************************************************************)

DEFAULT_MAX_TOKENS     == 500
DEFAULT_OVERLAP_TOKENS == 50
CHARS_PER_TOKEN        == 4
\* How far before startIndex + maxChars chunkText looks for a break point.
BREAK_SEARCH_CHARS     == 200
\* The token count above which ingestDocument chunks the content.
INGEST_CHUNK_TOKENS    == 500

\* Bounds of the chunker model: a text is up to MaxSegments segments, each a
\* run of one character, ShortRun or LongRun long, followed by a separator.
MaxSegments == 2
ShortRun    == 150
LongRun     == 1850

Whitespace == {" ", "\n"}
RunChars   == {"a", " "}
RunLengths == {ShortRun, LongRun}
Separators == {<<>>, <<".", " ">>, <<"\n", "\n">>}
Segments   == [ch : RunChars, n : RunLengths, sep : Separators]

\* The options chunkText is called with: none (the defaults apply), or a
\* smaller pair.
ChunkOptions ==
  {[hasMaxTokens |-> FALSE, maxTokens |-> 0, hasOverlapTokens |-> FALSE, overlapTokens |-> 0],
   [hasMaxTokens |-> TRUE, maxTokens |-> 250, hasOverlapTokens |-> TRUE, overlapTokens |-> 25]}

\* The options ingestDocument passes: { maxTokens: 500, overlapTokens: 50 }.
IngestChunkOptions ==
  [hasMaxTokens |-> TRUE, maxTokens |-> 500, hasOverlapTokens |-> TRUE, overlapTokens |-> 50]

SegmentText(seg) == [i \in 1..seg.n |-> seg.ch] \o seg.sep

RECURSIVE TextOf(_)
TextOf(segs) ==
  IF segs = <<>> THEN <<>> ELSE SegmentText(Head(segs)) \o TextOf(Tail(segs))

\* String.prototype.slice(a, b): negative indices count from the end, both
\* are clamped to the string, an empty range gives ''.
Slice(s, a, b) ==
  LET from == IF a < 0 THEN Max(Len(s) + a, 0) ELSE Min(a, Len(s))
      to   == IF b < 0 THEN Max(Len(s) + b, 0) ELSE Min(b, Len(s))
  IN IF from >= to THEN <<>> ELSE SubSeq(s, from + 1, to)

\* pat occurs in s at 0-based index i.
MatchAt(s, pat, i) ==
  s[i + 1] = pat[1] /\ \A k \in 2..Len(pat) : s[i + k] = pat[k]

\* The last 0-based index in lo..hi at which pat occurs in s, -1 when none
\* (found by halving the range).
RECURSIVE LastIndexIn(_, _, _, _)
LastIndexIn(s, pat, lo, hi) ==
  IF lo > hi THEN -1
  ELSE IF lo = hi THEN (IF MatchAt(s, pat, lo) THEN lo ELSE -1)
  ELSE LET mid == (lo + hi) \div 2
       IN IF \E i \in (mid + 1)..hi : MatchAt(s, pat, i)
            THEN LastIndexIn(s, pat, mid + 1, hi)
            ELSE LastIndexIn(s, pat, lo, mid)

\* String.prototype.lastIndexOf(pat): the 0-based index of the last
\* occurrence of pat, -1 when there is none.
LastIndexOf(s, pat) == LastIndexIn(s, pat, 0, Len(s) - Len(pat))

\* The first index in lo..hi whose character is no whitespace, hi + 1 when
\* there is none; and the last such index, lo - 1 when there is none.
RECURSIVE FirstNonWs(_, _, _)
FirstNonWs(s, lo, hi) ==
  IF lo > hi THEN hi + 1
  ELSE IF lo = hi THEN (IF s[lo] \in Whitespace THEN hi + 1 ELSE lo)
  ELSE LET mid == (lo + hi) \div 2
       IN IF \A i \in lo..mid : s[i] \in Whitespace
            THEN FirstNonWs(s, mid + 1, hi)
            ELSE FirstNonWs(s, lo, mid)

RECURSIVE LastNonWs(_, _, _)
LastNonWs(s, lo, hi) ==
  IF lo > hi THEN lo - 1
  ELSE IF lo = hi THEN (IF s[lo] \in Whitespace THEN lo - 1 ELSE lo)
  ELSE LET mid == (lo + hi) \div 2
       IN IF \A i \in (mid + 1)..hi : s[i] \in Whitespace
            THEN LastNonWs(s, lo, mid)
            ELSE LastNonWs(s, mid + 1, hi)

\* String.prototype.trim()
Trim(s) ==
  LET f == FirstNonWs(s, 1, Len(s))
  IN IF f > Len(s) THEN <<>> ELSE SubSeq(s, f, LastNonWs(s, 1, Len(s)))

Max4(a, b, c, d) == Max(Max(a, b), Max(c, d))

\* chunkText, lines 27-56: the end index of the chunk that starts at
\* startIndex.
ChunkEnd(text, startIndex, maxChars) ==
  LET endIndex == startIndex + maxChars
  IN IF endIndex < Len(text)
       THEN LET searchStart == Max(startIndex + maxChars - BREAK_SEARCH_CHARS, startIndex)
                searchText  == Slice(text, searchStart, endIndex)
                paragraphBreak == LastIndexOf(searchText, <<"\n", "\n">>)
                sentenceBreak ==
                  Max4(LastIndexOf(searchText, <<".", " ">>),
                       LastIndexOf(searchText, <<".", "\n">>),
                       LastIndexOf(searchText, <<"?", " ">>),
                       LastIndexOf(searchText, <<"!", " ">>))
                wordBreak == LastIndexOf(searchText, <<" ">>)
            IN IF paragraphBreak # -1 THEN searchStart + paragraphBreak + 2
               ELSE IF sentenceBreak # -1 THEN searchStart + sentenceBreak + 2
               ELSE IF wordBreak # -1 THEN searchStart + wordBreak + 1
               ELSE endIndex
       ELSE endIndex

\* text.slice(startIndex, endIndex + 1): the end index taken as inclusive.
ChunkSlice_inclusiveEnd(text, startIndex, endIndex) ==
  Trim(Slice(text, startIndex, endIndex + 1))

\* chunkText, line 58: text.slice(startIndex, endIndex).trim()
ChunkSlice(text, startIndex, endIndex) == Trim(Slice(text, startIndex, endIndex))

\* chunkText, lines 26-63: the [startIndex, endIndex] of every pass of the
\* while loop, in order.
RECURSIVE ChunkSpans(_, _, _, _)
ChunkSpans(text, maxChars, overlapChars, startIndex) ==
  IF ~(startIndex < Len(text)) THEN <<>>
  ELSE LET endIndex == ChunkEnd(text, startIndex, maxChars)
           next     == endIndex - overlapChars
       IN <<[startIndex |-> startIndex, endIndex |-> endIndex]>> \o
          (IF next >= Len(text) THEN <<>>
           ELSE ChunkSpans(text, maxChars, overlapChars, next))

MaxTokensOf(options) ==
  IF options.hasMaxTokens THEN options.maxTokens ELSE DEFAULT_MAX_TOKENS

OverlapTokensOf(options) ==
  IF options.hasOverlapTokens THEN options.overlapTokens ELSE DEFAULT_OVERLAP_TOKENS

\* chunks.filter((chunk) => chunk.length > 0)
NonEmpty(chunks) == SelectSeq(chunks, LAMBDA c : Len(c) > 0)

\* chunkText(text, options): the spans of the while loop's passes (none when
\* the text is returned whole) and the strings returned.
chunkTextRun(text, options) ==
  LET maxChars     == MaxTokensOf(options) * CHARS_PER_TOKEN
      overlapChars == OverlapTokensOf(options) * CHARS_PER_TOKEN
  IN IF Len(text) <= maxChars THEN [spans |-> <<>>, chunks |-> <<text>>]
     ELSE LET spans == ChunkSpans(text, maxChars, overlapChars, 0)
          IN [spans |-> spans,
              chunks |-> NonEmpty([i \in 1..Len(spans) |->
                           ChunkSlice(text, spans[i].startIndex, spans[i].endIndex)])]

chunkText(text, options) == chunkTextRun(text, options).chunks

\* Math.ceil(text.length / CHARS_PER_TOKEN)
estimateTokenCount(text) == (Len(text) + CHARS_PER_TOKEN - 1) \div CHARS_PER_TOKEN

\* ingestDocument with chunkIndex counted from 1.
InsertData_oneBased(content, metadata) ==
  IF ~(estimateTokenCount(content) > INGEST_CHUNK_TOKENS)
    THEN <<[metadata EXCEPT !.chunkIndex = 1, !.totalChunks = 1]>>
    ELSE LET chunks == chunkText(content, IngestChunkOptions)
         IN [index \in 1..Len(chunks) |->
               [metadata EXCEPT !.chunkIndex = index, !.totalChunks = Len(chunks)]]

\* ingestDocument, lines 38-91: the metadata of the rows it hands to insert,
\* in order ({...metadata, chunkIndex, totalChunks}).
InsertData(content, metadata) ==
  IF ~(estimateTokenCount(content) > INGEST_CHUNK_TOKENS)
    THEN <<[metadata EXCEPT !.chunkIndex = 0, !.totalChunks = 1]>>
    ELSE LET chunks == chunkText(content, IngestChunkOptions)
         IN [index \in 1..Len(chunks) |->
               [metadata EXCEPT !.chunkIndex = index - 1,
                                !.totalChunks = Len(chunks)]]

\* Partial<ChunkMetadata> given by a caller: it may name chunkIndex and
\* totalChunks itself.
InputMetadata == {[section |-> "s", chunkIndex |-> 7, totalChunks |-> 9]}

NotCalled == [op |-> "none"]

\* chunkText(text, options), called by a client of the chunker.
ChunkTextCall ==
  /\ chunkOut = NotCalled
  /\ ingestOut = NotCalled
  /\ LET text == TextOf(chunkIn.segs)
         run  == chunkTextRun(text, chunkIn.options)
     IN chunkOut' =
          [op |-> "chunkText",
           textLength |-> Len(text),
           spans |-> run.spans,
           lengths |-> [i \in 1..Len(run.chunks) |-> Len(run.chunks[i])]]
  /\ UNCHANGED <<chunkIn, spec_documents, ingestOut>>
  /\ UNCHANGED exceptChunk

\* ingestDocument({content: text, metadata}): embedOk / insertOk say whether
\* the embedding call and the insert succeed.
IngestDocument(metadata, embedOk, insertOk) ==
  /\ chunkOut = NotCalled
  /\ ingestOut = NotCalled
  /\ LET content == TextOf(chunkIn.segs)
         rows    == InsertData(content, metadata)
     IN IF ~embedOk
          THEN /\ ingestOut' = [op |-> "ingestDocument", status |-> "rejected",
                                chunksCreated |-> 0, totalTokens |-> 0]
               /\ UNCHANGED spec_documents
        ELSE IF ~insertOk
          THEN /\ ingestOut' = [op |-> "ingestDocument", status |-> "rejected",
                                chunksCreated |-> 0, totalTokens |-> 0]
               /\ UNCHANGED spec_documents
        ELSE IF Len(rows) = 0
          \* insert([]) stores nothing and data[0].id throws
          THEN /\ ingestOut' = [op |-> "ingestDocument", status |-> "rejected",
                                chunksCreated |-> 0, totalTokens |-> 0]
               /\ UNCHANGED spec_documents
        ELSE /\ ingestOut' = [op |-> "ingestDocument", status |-> "fulfilled",
                              chunksCreated |-> Len(rows),
                              totalTokens |-> estimateTokenCount(content)]
             /\ spec_documents' = spec_documents \o rows
  /\ UNCHANGED <<chunkIn, chunkOut>>
  /\ UNCHANGED exceptChunk

NextChunk ==
  \/ ChunkTextCall
  \/ \E m \in InputMetadata, embedOk \in BOOLEAN, insertOk \in BOOLEAN :
       IngestDocument(m, embedOk, insertOk)

(***************************************************************************)
(* 5. Diff service: getUpgradePath and analyzeDiff                         *)
(***************************************************************************)

DiffCallIds == {"a1", "a2"}

\* getUpgradePath, line 47
versionOrder == <<"cpp98", "cpp03", "cpp11", "cpp14", "cpp17", "cpp20", "cpp23">>

\* Array.prototype.indexOf: the 0-based position of the first match, or -1.
IndexOf(arr, v) ==
  IF \E i \in 1..Len(arr) : arr[i] = v
    THEN (CHOOSE i \in 1..Len(arr) :
            arr[i] = v /\ \A j \in 1..(i - 1) : arr[j] # v) - 1
    ELSE -1

Includes(arr, v) == \E i \in 1..Len(arr) : arr[i] = v

\* `${source}-${target}`
getDiffKey(source, target) == source \o "-" \o target

getVersionPairs == << <<"cpp11", "cpp14">>, <<"cpp14", "cpp17">> >>

\* pairs.find(([s]) => s === current): the position of the first pair that
\* starts at current, 0 when there is none.
FindPair(pairs, current) ==
  IF \E k \in 1..Len(pairs) : pairs[k][1] = current
    THEN CHOOSE k \in 1..Len(pairs) :
           pairs[k][1] = current /\ \A j \in 1..(k - 1) : pairs[j][1] # current
    ELSE 0

\* getUpgradePath, lines 59-68: the while loop.
RECURSIVE UpgradeWalk(_, _, _, _)
UpgradeWalk(pairs, current, target, path) ==
  IF current = target THEN path
  ELSE LET k == FindPair(pairs, current)
       IN IF k = 0 THEN path
          ELSE UpgradeWalk(pairs, pairs[k][2], target, Append(path, pairs[k]))

getUpgradePath(source, target) ==
  LET sourceIndex == IndexOf(versionOrder, source)
      targetIndex == IndexOf(versionOrder, target)
  IN IF sourceIndex = -1 \/ targetIndex = -1 \/ sourceIndex >= targetIndex
       THEN <<>>
       ELSE UpgradeWalk(getVersionPairs, source, target, <<>>)

CategoryNames ==
  <<"newFeatures", "behaviorChanges", "deprecated", "removed", "libraryChanges">>

Categories == {CategoryNames[i] : i \in 1..Len(CategoryNames)}

\* data.<category> || []
CategoryOr(data, cat) == IF cat \in DOMAIN data THEN data[cat] ELSE <<>>

\* analyzeDiff, lines 158-164: the DiffCategory pushed for one loaded file.
DiffCategoryOf(data) == [cat \in Categories |-> CategoryOr(data, cat)]

RECURSIVE WithoutRepeats(_)
WithoutRepeats(items) ==
  IF items = <<>> THEN <<>>
  ELSE LET front == WithoutRepeats(SubSeq(items, 1, Len(items) - 1))
           last  == items[Len(items)]
       IN IF Includes(front, last) THEN front ELSE Append(front, last)

RECURSIVE PushAll(_, _)
PushAll(categories, cat) ==
  IF categories = <<>> THEN <<>>
  ELSE Head(categories)[cat] \o PushAll(Tail(categories), cat)

\* A merge that keeps only the first occurrence of every item.
mergeDiffCategories_unique(categories) ==
  [cat \in Categories |-> WithoutRepeats(PushAll(categories, cat))]

\* mergeDiffCategories: merged.<category>.push(...cat.<category>) for every
\* element of categories, in order.
mergeDiffCategories(categories) ==
  [cat \in Categories |-> PushAll(categories, cat)]

\* A request's categories: absent, or an array of category names.
NoFilter == [has |-> FALSE, cats |-> <<>>]

filterCategories(diff, filter) ==
  IF ~filter.has \/ Len(filter.cats) = 0 THEN diff
  ELSE [cat \in Categories |->
          IF Includes(filter.cats, cat) THEN diff[cat] ELSE <<>>]

TotalOf(diff) ==
  Len(diff["newFeatures"]) + Len(diff["behaviorChanges"]) +
  Len(diff["deprecated"]) + Len(diff["removed"]) + Len(diff["libraryChanges"])

\* source.replace('cpp', 'C++') on the version ids.
CppLabel(version) ==
  CASE version = "cpp98" -> "C++98"
    [] version = "cpp03" -> "C++03"
    [] version = "cpp11" -> "C++11"
    [] version = "cpp14" -> "C++14"
    [] version = "cpp17" -> "C++17"
    [] version = "cpp20" -> "C++20"
    [] version = "cpp23" -> "C++23"
    [] OTHER -> version

SummaryLabels ==
  <<"new features", "behavior changes", "deprecated items", "removed items",
    "library changes">>

\* generateSummary: the labels, the total and the parts of the sentence.
generateSummary(source, target, diff) ==
  [sourceLabel |-> CppLabel(source),
   targetLabel |-> CppLabel(target),
   total       |-> TotalOf(diff),
   parts       |-> [i \in {j \in 1..Len(CategoryNames) :
                             Len(diff[CategoryNames[j]]) > 0} |->
                      <<Len(diff[CategoryNames[i]]), SummaryLabels[i]>>]]

\* The diff files a deployment can hold: complete, with categories left out,
\* or absent (readFile or JSON.parse throws).
FileFull ==
  [found |-> TRUE,
   data  |-> [cat \in Categories |->
                CASE cat = "newFeatures"     -> <<"x", "y">>
                  [] cat = "behaviorChanges" -> <<"b">>
                  [] cat = "deprecated"      -> <<"d">>
                  [] cat = "removed"         -> <<"r">>
                  [] OTHER                   -> <<"x">>]]

FilePartial ==
  [found |-> TRUE,
   data  |-> [cat \in {"newFeatures", "behaviorChanges", "libraryChanges"} |->
                CASE cat = "newFeatures"     -> <<"y", "x">>
                  [] cat = "behaviorChanges" -> <<>>
                  [] OTHER                   -> <<"l", "l">>]]

FileAbsent == [found |-> FALSE, data |-> <<>>]

FileVariants == {FileFull, FilePartial, FileAbsent}

DiffKeys ==
  {getDiffKey(getVersionPairs[k][1], getVersionPairs[k][2]) :
     k \in 1..Len(getVersionPairs)}

RequestVersions == {"cpp03", "cpp11", "cpp14", "cpp17", "cpp20"}

RequestFilters ==
  {NoFilter,
   [has |-> TRUE, cats |-> <<>>],
   [has |-> TRUE, cats |-> <<"newFeatures">>],
   [has |-> TRUE, cats |-> <<"removed", "deprecated">>]}

DiffRequests ==
  [sourceVersion : RequestVersions, targetVersion : RequestVersions,
   categories : RequestFilters]

NoDiffRequest ==
  [sourceVersion |-> "", targetVersion |-> "", categories |-> NoFilter]

NoDiffResult == [source |-> "", target |-> "", totalChanges |-> 0]

DiffCallIdle ==
  [pc |-> "idle", request |-> NoDiffRequest, path |-> <<>>, index |-> 0,
   held |-> <<>>, allCategories |-> <<>>, result |-> NoDiffResult,
   error |-> ""]

DiffAllIdle == [c \in DiffCallIds |-> DiffCallIdle]

\* loadDiffData, lines 18-22: the part that runs before the file is read. A
\* cache hit hands back the cached object; a miss goes on to readFile.
LoadBegin(call, cache, index) ==
  LET key == getDiffKey(call.path[index][1], call.path[index][2])
  IN IF key \in DOMAIN cache
       THEN [call EXCEPT !.pc = "hit", !.index = index, !.held = cache[key]]
       ELSE [call EXCEPT !.pc = "reading", !.index = index, !.held = <<>>]

\* analyzeDiff, lines 168-187: merge, filter, count and return.
FinishDiff(call) ==
  LET req        == call.request
      mergedDiff == filterCategories(mergeDiffCategories(call.allCategories),
                                     req.categories)
  IN [call EXCEPT
        !.pc = "returned",
        !.held = <<>>,
        !.result = [source       |-> req.sourceVersion,
                    target       |-> req.targetVersion,
                    diff         |-> mergedDiff,
                    summary      |-> generateSummary(req.sourceVersion,
                                       req.targetVersion, mergedDiff),
                    totalChanges |-> TotalOf(mergedDiff)]]

\* What a finished merge leaves in the module-level cache. The elements of
\* allCategories share their arrays with the cached objects (data.newFeatures
\* is pushed by reference), but mergeDiffCategories only spreads them into the
\* arrays of its own `merged` literal, so the cached objects stay as loaded.
CacheAfterMerge_intoFirst(cache, call) ==
  LET key == getDiffKey(call.path[1][1], call.path[1][2])
  IN IF key \in DOMAIN cache /\ Len(call.allCategories) > 0
       THEN [cache EXCEPT ![key] =
               [cat \in DOMAIN cache[key] |-> PushAll(call.allCategories, cat)]]
       ELSE cache

CacheAfterMerge(cache, call) == cache

\* analyzeDiff(request) up to its first await: getUpgradePath, the throw on an
\* empty path, and the first loadDiffData call up to readFile.
AnalyzeDiff(c, request) ==
  /\ diffCalls[c].pc = "idle"
  /\ LET path == getUpgradePath(request.sourceVersion, request.targetVersion)
         call == [diffCalls[c] EXCEPT !.request = request, !.path = path]
     IN diffCalls' =
          [diffCalls EXCEPT ![c] =
             IF Len(path) = 0
               THEN [call EXCEPT !.pc = "thrown",
                                 !.error = "No upgrade path found"]
               ELSE LoadBegin(call, diffDataCache, 1)]
  /\ UNCHANGED <<diffFiles, diffDataCache>>
  /\ UNCHANGED exceptDiff

\* analyzeDiff resumed after await loadDiffData(src, tgt): a file that was
\* read is cached, its categories are pushed, and the loop goes on to the next
\* pair or the call finishes.
AnalyzeDiffResume(c) ==
  /\ diffCalls[c].pc \in {"hit", "reading"}
  /\ LET call  == diffCalls[c]
         key   == getDiffKey(call.path[call.index][1], call.path[call.index][2])
         file  == diffFiles[key]
         isHit == call.pc = "hit"
         has   == isHit \/ file.found
         data  == IF isHit THEN call.held ELSE file.data
         cache == IF ~isHit /\ file.found
                    THEN [k \in DOMAIN diffDataCache \cup {key} |->
                            IF k = key THEN file.data ELSE diffDataCache[k]]
                    ELSE diffDataCache
         pushed == [call EXCEPT !.allCategories =
                      IF has THEN Append(@, DiffCategoryOf(data)) ELSE @]
     IN /\ diffDataCache' = IF call.index < Len(call.path)
                              THEN cache
                              ELSE CacheAfterMerge(cache, pushed)
        /\ diffCalls' =
             [diffCalls EXCEPT ![c] =
                IF call.index < Len(call.path)
                  THEN LoadBegin(pushed, cache, call.index + 1)
                  ELSE FinishDiff(pushed)]
  /\ UNCHANGED diffFiles
  /\ UNCHANGED exceptDiff

NextDiff ==
  \/ \E c \in DiffCallIds, request \in DiffRequests : AnalyzeDiff(c, request)
  \/ \E c \in DiffCallIds : AnalyzeDiffResume(c)

(***************************************************************************)
(* 6. DocumentProcessor.ingestBatch                                        *)
(***************************************************************************)

CONCURRENCY == 5

\* Bound of the batch model: the largest number of input documents.
MaxDocs == 6

\* How one ingestDocument call of the batch settles: fulfilled, rejected with
\* an Error, or rejected with a reason that has no message.
SettleOutcomes == {"fulfilled", "rejected", "rejectedNoMessage"}

BatchInputs(n) == [k \in 1..n |-> [title |-> k]]

BatchIdle(n) ==
  [pc |-> "idle", inputs |-> BatchInputs(n), i |-> 0,
   status |-> [k \in 1..n |-> "pending"],
   successful |-> <<>>, failed |-> <<>>]

\* inputs.slice(i, i + CONCURRENCY), as positions of inputs.
GroupAt(b, i) == (i + 1)..Min(i + CONCURRENCY, Len(b.inputs))

Settled(status, d) == status[d] \in SettleOutcomes

\* await Promise.all(...): resumes when all have fulfilled, rejects as soon as
\* one has rejected.
AwaitGroup_promiseAll(status, group) ==
  [ready    |-> \/ \A d \in group : status[d] = "fulfilled"
                \/ \E d \in group : Settled(status, d) /\ status[d] # "fulfilled",
   rejected |-> \E d \in group : Settled(status, d) /\ status[d] # "fulfilled"]

\* await Promise.allSettled(...): resumes when every promise has settled and
\* never rejects.
AwaitGroup(status, group) ==
  [ready    |-> \A d \in group : Settled(status, d),
   rejected |-> FALSE]

\* inputs.map((input) => this.ingestDocument(input)) over all inputs at once:
\* every document not yet started is started.
StartGroup_all(b, i) ==
  [b EXCEPT !.pc = "awaiting", !.i = i,
            !.status = [d \in DOMAIN b.status |->
                          IF b.status[d] = "pending" THEN "inflight" ELSE b.status[d]]]

\* batch.map((input) => this.ingestDocument(input)): every call of the group
\* is started.
StartGroup(b, i) ==
  [b EXCEPT !.pc = "awaiting", !.i = i,
            !.status = [d \in DOMAIN b.status |->
                          IF d \in GroupAt(b, i) THEN "inflight" ELSE b.status[d]]]

\* batchResults.forEach((result, index) => ...), from index on.
RECURSIVE CollectFrom(_, _, _)
CollectFrom(b, batchSlice, index) ==
  IF index >= Len(batchSlice) THEN b
  ELSE LET result == b.status[b.i + index + 1]
           pushed ==
             IF result = "fulfilled"
               THEN [b EXCEPT !.successful =
                       Append(@, [documentOf |-> b.inputs[b.i + index + 1].title])]
               ELSE [b EXCEPT !.failed =
                       Append(@, [input |-> batchSlice[index + 1],
                                  error |-> IF result = "rejected"
                                              THEN "Failed to insert document"
                                              ELSE "Unknown error"])]
       IN CollectFrom(pushed, batchSlice, index + 1)

\* ingestBatch(inputs) up to its first await: the first group is started, or
\* the empty result is returned.
IngestBatchCall ==
  /\ batch.pc = "idle"
  /\ batch' = IF 0 < Len(batch.inputs)
                THEN StartGroup(batch, 0)
                ELSE [batch EXCEPT !.pc = "returned"]
  /\ UNCHANGED exceptBatch

\* One ingestDocument call of the group in flight settles.
IngestDocumentSettles(d, outcome) ==
  /\ batch.pc = "awaiting"
  /\ batch.status[d] = "inflight"
  /\ batch' = [batch EXCEPT !.status[d] = outcome]
  /\ UNCHANGED exceptBatch

\* ingestBatch resumed after the await: the group's results are collected
\* and the next group is started, or the call returns.
IngestBatchResume ==
  /\ batch.pc = "awaiting"
  /\ LET group == GroupAt(batch, batch.i)
         await == AwaitGroup(batch.status, group)
     IN /\ await.ready
        /\ batch' =
             IF await.rejected THEN [batch EXCEPT !.pc = "rejected"]
             ELSE LET batchSlice == SubSeq(batch.inputs, batch.i + 1,
                                          Min(batch.i + CONCURRENCY, Len(batch.inputs)))
                      collected  == CollectFrom(batch, batchSlice, 0)
                      i          == batch.i + CONCURRENCY
                  IN IF i < Len(batch.inputs)
                       THEN StartGroup(collected, i)
                       ELSE [collected EXCEPT !.pc = "returned", !.i = i]
  /\ UNCHANGED exceptBatch

NextBatch ==
  \/ IngestBatchCall
  \/ \E d \in 1..Len(batch.inputs), outcome \in SettleOutcomes :
       IngestDocumentSettles(d, outcome)
  \/ IngestBatchResume

(***************************************************************************)
(* 7. Compiler providers, the compile routes and the test routes           *)
(***************************************************************************)

MAX_CODE_LENGTH == 100000
maxAttempts == 30

STATUS_IN_QUEUE            == 1
STATUS_PROCESSING          == 2
STATUS_ACCEPTED            == 3
STATUS_WRONG_ANSWER        == 4
STATUS_TIME_LIMIT_EXCEEDED == 5
STATUS_COMPILATION_ERROR   == 6
STATUS_RUNTIME_ERROR_FIRST == 7
STATUS_RUNTIME_ERROR_OTHER == 12
STATUS_INTERNAL_ERROR      == 13

CompilerErrorCodes ==
  {"VALIDATION_FAILED", "COMPILE_TIMEOUT", "EXECUTE_TIMEOUT", "API_ERROR",
   "RATE_LIMITED", "UNSUPPORTED_STANDARD", "FORBIDDEN_CODE"}

\* Source code is a sequence of lines joined by "\n". LongLine stands for a
\* line of 99995 letters.
CodeLines ==
  {"int main(){}", " ", "#include <fstream>", "system(cmd);", "#!sh", "LongLine"}

LineChars(line) ==
  CASE line = "int main(){}"         -> 12
    [] line = " "                    -> 1
    [] line = "#include <fstream>"   -> 18
    [] line = "system(cmd);"         -> 12
    [] line = "#!sh"                 -> 4
    [] line = "// [removed shebang]" -> 20
    [] line = "LongLine"             -> 99995
    [] OTHER                         -> 0

RECURSIVE SumChars(_)
SumChars(code) ==
  IF code = <<>> THEN 0 ELSE LineChars(Head(code)) + SumChars(Tail(code))

\* code.length
CodeLength(code) ==
  IF code = <<>> THEN 0 ELSE SumChars(code) + (Len(code) - 1)

\* code.trim().length === 0
IsBlank(code) == \A k \in 1..Len(code) : code[k] = " "

\* FORBIDDEN_PATTERNS: the lines of the menu that one of the patterns matches.
ForbiddenLine(line) == line \in {"#include <fstream>", "system(cmd);"}

\* The codes a request body may carry: empty, blank, plain, with a forbidden
\* include or call, with a shebang line, and at or over the length limit.
Codes ==
  {<<>>, <<" ">>, <<"int main(){}">>,
   <<"#include <fstream>", "int main(){}">>,
   <<"int main(){}", "system(cmd);">>,
   <<"#!sh", "int main(){}">>,
   <<"LongLine">>, <<"LongLine", "#!sh">>, <<"LongLine", "int main(){}">>}

\* sanitizeCode: code.replace(/^#!.*$/gm, '// [removed shebang]'), then the
\* line endings are normalised (the menu has no carriage returns).
sanitizeCode(code) ==
  [k \in 1..Len(code) |->
     IF code[k] = "#!sh" THEN "// [removed shebang]" ELSE code[k]]

validateCode(code) ==
  IF CodeLength(code) = 0 \/ IsBlank(code)
    THEN [valid |-> FALSE, errorCode |-> "VALIDATION_FAILED"]
  ELSE IF CodeLength(code) > MAX_CODE_LENGTH
    THEN [valid |-> FALSE, errorCode |-> "VALIDATION_FAILED"]
  ELSE IF \E k \in 1..Len(code) : ForbiddenLine(code[k])
    THEN [valid |-> FALSE, errorCode |-> "FORBIDDEN_CODE"]
  ELSE [valid |-> TRUE, errorCode |-> ""]

\* prepareCode: the sanitized code, or the CompilerError it throws.
prepareCode(code) ==
  LET sanitized  == sanitizeCode(code)
      validation == validateCode(sanitized)
  IN IF ~validation.valid
       THEN [threw |-> TRUE, errorCode |-> validation.errorCode, code |-> sanitized]
       ELSE [threw |-> FALSE, errorCode |-> "", code |-> sanitized]

\* process.env as far as the compile and test routes read it.
CompilerProviderSettings == {"", "judge0"}

\* getDefaultCompilerProvider()
getDefaultCompilerProvider(e) ==
  LET provider == IF e.COMPILER_PROVIDER = "" THEN "wandbox" ELSE e.COMPILER_PROVIDER
  IN IF provider = "wandbox" THEN "wandbox"
     ELSE IF provider = "judge0"
       THEN (IF e.JUDGE0_API_KEY = "" THEN "wandbox" ELSE "judge0")
     ELSE "wandbox"

\* getTestGenerator(): null without ANTHROPIC_API_KEY.
getTestGenerator(e) == e.ANTHROPIC_API_KEY # ""

\* What the upstream compile service answers to one fetch.
SubmitResponses == {"ok", "http429", "http500", "networkError"}

PollStatusIds ==
  {STATUS_IN_QUEUE, STATUS_PROCESSING, STATUS_ACCEPTED, STATUS_TIME_LIMIT_EXCEEDED,
   STATUS_COMPILATION_ERROR, STATUS_RUNTIME_ERROR_FIRST, STATUS_INTERNAL_ERROR}

PollResponses ==
  {[http |-> "ok", statusId |-> id] : id \in PollStatusIds} \cup
  {[http |-> h, statusId |-> 0] : h \in {"http429", "http500", "networkError"}}

WandboxResponses ==
  {[http |-> "ok", compileError |-> ce, runtimeError |-> re] :
     ce \in BOOLEAN, re \in BOOLEAN} \cup
  {[http |-> h, compileError |-> FALSE, runtimeError |-> FALSE] :
     h \in {"http429", "http500", "abort", "networkError"}}

\* How a provider call ended: a result or a thrown error.
NoOutcome ==
  [kind |-> "none", status |-> "", runStatus |-> "", isCompilerError |-> FALSE,
   code |-> ""]

Thrown(isCompilerError, code) ==
  [kind |-> "error", status |-> "", runStatus |-> "",
   isCompilerError |-> isCompilerError, code |-> code]

\* The catch block of compile / execute in both providers: a CompilerError is
\* rethrown, anything else is wrapped in a CompilerError with API_ERROR.
AdapterCatch(error) ==
  IF error.isCompilerError THEN error ELSE Thrown(TRUE, "API_ERROR")

\* Judge0Provider.parseRunResult: the run status for a status id.
Judge0RunStatus(statusId) ==
  IF statusId = STATUS_TIME_LIMIT_EXCEEDED THEN "timeout"
  ELSE IF statusId >= STATUS_RUNTIME_ERROR_FIRST /\ statusId <= STATUS_RUNTIME_ERROR_OTHER
    THEN "runtime_error"
  ELSE IF statusId # STATUS_ACCEPTED /\ statusId # STATUS_WRONG_ANSWER THEN "error"
  ELSE "success"

\* Judge0Provider.compile / execute after submitAndWait returned a result.
Judge0Result(op, statusId) ==
  LET isCompileError == statusId = STATUS_COMPILATION_ERROR
  IN [kind |-> "result",
      status |-> IF isCompileError THEN "error" ELSE "success",
      runStatus |-> IF op = "execute" /\ ~isCompileError
                      THEN Judge0RunStatus(statusId) ELSE "",
      isCompilerError |-> FALSE, code |-> ""]

\* WandboxProvider.compile / execute after callWandboxApi returned a response.
WandboxResult(op, resp) ==
  [kind |-> "result",
   status |-> IF resp.compileError THEN "error" ELSE "success",
   runStatus |-> IF op = "execute" /\ ~resp.compileError
                   THEN (IF resp.runtimeError THEN "runtime_error" ELSE "success")
                   ELSE "",
   isCompilerError |-> FALSE, code |-> ""]

\* submitAndWait, line 200: processing is complete. The mutant below it
\* tests IN_QUEUE only.
PollComplete_queueOnly(statusId) == statusId # STATUS_IN_QUEUE

PollComplete(statusId) ==
  statusId # STATUS_IN_QUEUE /\ statusId # STATUS_PROCESSING

TestLists == {<<>>, <<"unit", "io">>, <<"io", "io">>}

CompIdle ==
  [pc |-> "idle", route |-> "", provider |-> "", op |-> "", code |-> <<>>,
   attempt |-> 0, fetches |-> 0, upstream |-> "none", laterFetch |-> FALSE,
   returnedId |-> 0, outcome |-> NoOutcome, passed |-> <<>>,
   tests |-> <<>>, results |-> <<>>, second |-> <<>>, status |-> 0,
   errorCode |-> ""]

\* compiler.compile(request) / compiler.execute(request) up to the first
\* fetch: the code is handed to the provider.
StartCall(c, op, code) ==
  [c EXCEPT !.pc = IF c.provider = "judge0" THEN "submit" ELSE "fetch",
            !.op = op, !.code = code, !.attempt = 0,
            !.fetches = 0, !.upstream = "none", !.laterFetch = FALSE,
            !.returnedId = 0, !.outcome = NoOutcome,
            !.passed = Append(@, code)]

\* The catch block of the compile routes, lines 115-132 and 214-231.
RouteErrorStatus(error) ==
  IF error.isCompilerError
    THEN (IF error.code = "RATE_LIMITED" THEN 429
          ELSE IF error.code = "FORBIDDEN_CODE" THEN 400
          ELSE IF error.code = "VALIDATION_FAILED" THEN 400
          ELSE 500)
    ELSE 500

Respond(c, status, errorCode) ==
  [c EXCEPT !.pc = "responded", !.status = status, !.errorCode = errorCode]

\* runTests, lines 138-203: the TestResult status for one executed test.
TestStatus(outcome) ==
  IF outcome.kind = "error" THEN "error"
  ELSE IF outcome.status = "error" THEN "error"
  ELSE IF outcome.runStatus = "" THEN "error"
  ELSE IF outcome.runStatus = "timeout" THEN "timeout"
  ELSE IF outcome.runStatus \in {"runtime_error", "error"} THEN "error"
  ELSE "compared"

\* runTests, the for loop from the next test on: tests that are not I/O tests
\* get an error result, the first I/O test is executed; when no test is left
\* compareTests runs the second code, and the route answers 200.
RECURSIVE RunTestsFrom(_)
RunTestsFrom(c) ==
  IF c.tests = <<>>
    THEN IF c.second # <<>>
           THEN RunTestsFrom([c EXCEPT !.tests = c.second[2], !.code = c.second[1],
                                       !.second = <<>>])
           ELSE Respond(c, 200, "")
  ELSE IF Head(c.tests) # "io"
    THEN RunTestsFrom([c EXCEPT !.tests = Tail(@), !.results = Append(@, "error")])
  ELSE StartCall(c, "execute", c.code)

\* What the caller of compile / execute does when the call ends.
AfterCall(c, ended) ==
  LET outcome == IF ended.kind = "error" THEN AdapterCatch(ended) ELSE ended
      done    == [c EXCEPT !.outcome = outcome]
  IN IF c.route \in {"compile", "execute"}
       THEN (IF outcome.kind = "error"
               THEN Respond(done, RouteErrorStatus(outcome), outcome.code)
               ELSE Respond(done, 200, ""))
       ELSE RunTestsFrom([done EXCEPT !.tests = Tail(@),
                                      !.results = Append(@, TestStatus(outcome))])

CompileBodies ==
  {[kind |-> "badJson", code |-> <<>>, stdinTooLong |-> FALSE],
   [kind |-> "badSchema", code |-> <<>>, stdinTooLong |-> FALSE]} \cup
  {[kind |-> "ok", code |-> code, stdinTooLong |-> long] :
     code \in {x \in Codes : CodeLength(x) >= 1}, long \in BOOLEAN}

\* POST /api/compile and POST /api/compile/execute up to the provider call.
CompileRoute(route, body) ==
  /\ comp.pc = "idle"
  /\ route \in {"compile", "execute"}
  /\ LET ip       == ClientIp("", "")
         limit    == checkRateLimit(requestCounts, ip, rlNow)
         c        == [CompIdle EXCEPT !.route = route,
                                      !.provider = getDefaultCompilerProvider(env)]
         prepared == prepareCode(body.code)
     IN /\ requestCounts' = limit.map
        /\ comp' =
             IF ~limit.allowed THEN Respond(c, 429, "RATE_LIMITED")
             ELSE IF body.kind = "badJson" THEN Respond(c, 500, "API_ERROR")
             ELSE IF body.kind = "badSchema" THEN Respond(c, 400, "")
             ELSE IF prepared.threw
               THEN Respond([c EXCEPT !.outcome = Thrown(TRUE, prepared.errorCode)],
                            RouteErrorStatus(Thrown(TRUE, prepared.errorCode)),
                            prepared.errorCode)
             ELSE IF route = "execute" /\ body.stdinTooLong
               THEN Respond(c, 400, "VALIDATION_FAILED")
             ELSE StartCall(c, route, prepared.code)
  /\ UNCHANGED <<env, rlNow, rlLast, rlWindow>>
  /\ UNCHANGED <<cacheVars, projVars, chunkVars, diffVars, batchVars, wbVars, svcVars,
                 uploadVars, trVars>>

TestBodies ==
  {[code |-> code, tests |-> tests, modernizedCode |-> <<"int main(){}">>] :
     code \in {<<"int main(){}">>, <<"#include <fstream>", "int main(){}">>},
     tests \in TestLists}

\* POST /api/test/run and POST /api/test/compare up to the first provider
\* call (the bodies have passed the zod schema).
TestRoute(route, body) ==
  /\ comp.pc = "idle"
  /\ route \in {"testRun", "testCompare"}
  /\ LET c == [CompIdle EXCEPT !.route = route,
                               !.provider = getDefaultCompilerProvider(env),
                               !.code = body.code, !.tests = body.tests,
                               !.second = IF route = "testCompare"
                                            THEN <<body.modernizedCode, body.tests>>
                                            ELSE <<>>]
     IN comp' = IF ~getTestGenerator(env) THEN Respond(c, 503, "")
                ELSE RunTestsFrom(c)
  /\ UNCHANGED <<env, rateVars>>
  /\ UNCHANGED <<cacheVars, projVars, chunkVars, diffVars, batchVars, wbVars, svcVars,
                 uploadVars, trVars>>

\* submitAndWait, lines 155-174: the answer to the submit request.
Judge0SubmitResponse(resp) ==
  /\ comp.pc = "submit"
  /\ LET c == [comp EXCEPT !.fetches = @ + 1,
                           !.upstream = resp]
     IN comp' =
          IF resp = "networkError" THEN AfterCall(c, Thrown(FALSE, ""))
          ELSE IF resp = "http429" THEN AfterCall(c, Thrown(TRUE, "RATE_LIMITED"))
          ELSE IF resp # "ok" THEN AfterCall(c, Thrown(TRUE, "API_ERROR"))
          ELSE [c EXCEPT !.pc = "poll"]
  /\ UNCHANGED <<env, rateVars>>
  /\ UNCHANGED <<cacheVars, projVars, chunkVars, diffVars, batchVars, wbVars, svcVars,
                 uploadVars, trVars>>

\* submitAndWait, lines 180-213: one pass of the polling loop, and the throw
\* after the loop when this was the last pass.
Judge0PollResponse(resp) ==
  /\ comp.pc = "poll"
  /\ comp.attempt < maxAttempts
  /\ LET c == [comp EXCEPT !.fetches = @ + 1,
                           !.attempt = @ + 1,
                           !.laterFetch = @ \/ comp.upstream # "ok",
                           !.upstream = resp.http]
     IN comp' =
          IF resp.http = "networkError" THEN AfterCall(c, Thrown(FALSE, ""))
          ELSE IF resp.http # "ok" THEN AfterCall(c, Thrown(TRUE, "API_ERROR"))
          ELSE IF PollComplete(resp.statusId)
            THEN AfterCall([c EXCEPT !.returnedId = resp.statusId],
                           Judge0Result(c.op, resp.statusId))
          ELSE IF c.attempt >= maxAttempts
            THEN AfterCall([c EXCEPT !.upstream = "timeout"],
                           Thrown(TRUE, "COMPILE_TIMEOUT"))
          ELSE c
  /\ UNCHANGED <<env, rateVars>>
  /\ UNCHANGED <<cacheVars, projVars, chunkVars, diffVars, batchVars, wbVars, svcVars,
                 uploadVars, trVars>>

\* callWandboxApi: the answer to the fetch, or its abort by the timer.
WandboxResponse(resp) ==
  /\ comp.pc = "fetch"
  /\ LET c == [comp EXCEPT !.fetches = @ + 1,
                           !.upstream = IF resp.http = "abort" THEN "timeout"
                                        ELSE resp.http]
     IN comp' =
          IF resp.http = "abort" THEN AfterCall(c, Thrown(TRUE, "COMPILE_TIMEOUT"))
          ELSE IF resp.http = "networkError" THEN AfterCall(c, Thrown(FALSE, ""))
          ELSE IF resp.http # "ok" THEN AfterCall(c, Thrown(TRUE, "API_ERROR"))
          ELSE AfterCall(c, WandboxResult(c.op, resp))
  /\ UNCHANGED <<env, rateVars>>
  /\ UNCHANGED <<cacheVars, projVars, chunkVars, diffVars, batchVars, wbVars, svcVars,
                 uploadVars, trVars>>

\* The response has been sent; the server takes the next request.
CompNextRequest ==
  /\ comp.pc = "responded"
  /\ comp' = CompIdle
  /\ UNCHANGED <<env, rateVars>>
  /\ UNCHANGED <<cacheVars, projVars, chunkVars, diffVars, batchVars, wbVars, svcVars,
                 uploadVars, trVars>>

NextCompile ==
  \/ \E route \in {"compile", "execute"}, body \in CompileBodies :
       CompileRoute(route, body)
  \/ \E route \in {"testRun", "testCompare"}, body \in TestBodies :
       TestRoute(route, body)
  \/ \E resp \in SubmitResponses : Judge0SubmitResponse(resp)
  \/ \E resp \in PollResponses : Judge0PollResponse(resp)
  \/ \E resp \in WandboxResponses : WandboxResponse(resp)
  \/ CompNextRequest

(***************************************************************************)
(* 8. WandboxProvider: parseCompileResult and parseCompilerOutput          *)
(***************************************************************************)

\* Bound of the parser model: the most lines compiler_error holds.
MaxErrorLines == 2

\* Compiler output is a sequence of lines. A line is told by what the parser
\* looks at: whether it starts with file:line:col:, the word before its next
\* colon, its message, and whether the message itself contains "error" in
\* some letter case.
OutputLines ==
  {[pos |-> TRUE,  type |-> "warning", message |-> "unused variable 'x'",
    mentionsError |-> FALSE],
   [pos |-> TRUE,  type |-> "warning", message |-> "unused variable 'error_code'",
    mentionsError |-> TRUE],
   [pos |-> TRUE,  type |-> "error", message |-> "expected ';' before '}'",
    mentionsError |-> FALSE],
   [pos |-> TRUE,  type |-> "note", message |-> "declared here",
    mentionsError |-> FALSE],
   [pos |-> FALSE, type |-> "", message |-> "In function 'int main()':",
    mentionsError |-> FALSE],
   [pos |-> FALSE, type |-> "error", message |-> "no input files",
    mentionsError |-> FALSE]}

\* /^(?:.*?):(\d+):(\d+):\s*(warning|error):\s*(.+)$/ matches the line.
LineRegexMatches(l) == l.pos /\ l.type \in {"warning", "error"}

\* line.toLowerCase().includes('error')
LineIncludesError(l) == l.type = "error" \/ l.mentionsError

\* line.includes('error:')
LineIncludesErrorColon(l) == l.type = "error"

CompilerMessageOf(l) ==
  [type |-> l.type, structured |-> TRUE, message |-> <<l.message>>]

\* The messages of the matching lines of the given type, in order.
MatchesOfType(output, type) ==
  LET hits == SelectSeq(output, LAMBDA l : LineRegexMatches(l) /\ l.type = type)
  IN [k \in 1..Len(hits) |-> CompilerMessageOf(hits[k])]

\* WandboxProvider.parseCompilerOutput(output)
parseCompilerOutput(output) ==
  IF output = <<>> THEN [warnings |-> <<>>, errors |-> <<>>]
  ELSE LET warnings == MatchesOfType(output, "warning")
           errors   == MatchesOfType(output, "error")
       IN [warnings |-> warnings,
           errors |->
             IF Len(errors) = 0 /\ \E k \in 1..Len(output) : LineIncludesError(output[k])
               THEN <<[type |-> "error", structured |-> FALSE,
                       message |-> [k \in 1..Len(output) |-> output[k].message]]>>
               ELSE errors]

\* WandboxProvider.parseCompileResult(response, compileTimeMs)
parseCompileResult(response) ==
  LET compilerOutput == IF response.compiler_output # <<>>
                          THEN response.compiler_output
                          ELSE response.compiler_message
      compilerError  == response.compiler_error
      parsed         == parseCompilerOutput(compilerOutput \o compilerError)
      hasCompileError ==
        \/ Len(parsed.errors) > 0
        \/ \E k \in 1..Len(compilerError) : LineIncludesErrorColon(compilerError[k])
  IN [status   |-> IF hasCompileError THEN "error" ELSE "success",
      exitCode |-> IF hasCompileError THEN 1 ELSE 0,
      stdout   |-> compilerOutput,
      stderr   |-> compilerError,
      warnings |-> parsed.warnings,
      errors   |-> parsed.errors]

WandboxApiResponses ==
  [compiler_output  : UNION {[1..n -> OutputLines] : n \in 0..1},
   compiler_message : {<<>>, <<[pos |-> FALSE, type |-> "",
                                message |-> "In function 'int main()':",
                                mentionsError |-> FALSE]>>},
   compiler_error   : UNION {[1..n -> OutputLines] : n \in 0..MaxErrorLines}]

NotParsed ==
  [status |-> "", exitCode |-> 0, stdout |-> <<>>, stderr |-> <<>>,
   warnings |-> <<>>, errors |-> <<>>]

\* WandboxProvider.compile after callWandboxApi returned the response.
WandboxParse ==
  /\ ~wb.parsed
  /\ wb' = [wb EXCEPT !.parsed = TRUE, !.result = parseCompileResult(wb.response)]
  /\ UNCHANGED <<cacheVars, rateVars, projVars, chunkVars, diffVars, batchVars, compVars,
                 svcVars, uploadVars, trVars>>

NextWandbox == WandboxParse

(***************************************************************************)
(* 9. Routes that need configured services: chat, generate, ingest, test   *)
(***************************************************************************)

\* db/supabase.ts: the client is null unless both settings are present, and
\* getSupabaseClient() throws when it is null.
getSupabaseClientThrows(e) ==
  ~(e.SUPABASE_URL # "" /\ e.SUPABASE_SERVICE_ROLE_KEY # "")

\* routes/generate.ts createGenerator(): throws without Supabase, and when
\* neither LLM key is set.
createGeneratorThrows(e) ==
  \/ getSupabaseClientThrows(e)
  \/ (e.ANTHROPIC_API_KEY = "" /\ e.OPENAI_API_KEY = "")

\* routes/ingest.ts getProcessor(): throws without Supabase or the OpenAI key.
getProcessorThrows(e) ==
  \/ getSupabaseClientThrows(e)
  \/ e.OPENAI_API_KEY = ""

ServiceRoutes ==
  {"chat", "generate", "modernize", "ingest", "ingestBatch", "ingestStats",
   "testGenerate"}

\* What the configured upstream service does with the request once called:
\* answer, answer with something unusable, or fail.
UpstreamOutcomes == {"ok", "unusable", "throws"}

\* One request: whether its body passes the route's schema (and, for
\* /api/generate, the version-order test), and what the upstream would do.
ServiceRequests ==
  [route : ServiceRoutes, bodyValid : BOOLEAN, upstream : UpstreamOutcomes]

NoServiceResponse ==
  [route |-> "", bodyValid |-> FALSE, upstream |-> "", called |-> FALSE, status |-> 0]

\* The external-service credentials the route's work needs and the
\* environment lacks.
\* chat streams from Claude (retrieval is skipped when it cannot run);
\* generate needs Supabase and one LLM key; ingest needs Supabase and
\* OpenAI embeddings; test generation needs Claude.
MissingCredentials(route, e) ==
  CASE route = "chat" -> e.ANTHROPIC_API_KEY = ""
    [] route \in {"generate", "modernize"} -> createGeneratorThrows(e)
    [] route \in {"ingest", "ingestBatch", "ingestStats"} -> getProcessorThrows(e)
    [] route = "testGenerate" -> ~getTestGenerator(e)
    [] OTHER -> FALSE

\* chatRouter.post('/')
ChatStatus(e, req) ==
  IF ~req.bodyValid THEN 400
  ELSE IF e.ANTHROPIC_API_KEY = "" THEN 500
  ELSE 200   \* the SSE stream; a failing Claude call is an 'error' event in it

\* generateRouter.post('/') and generateRouter.post('/modernize')
GenerateStatus(e, req) ==
  IF ~req.bodyValid THEN 400
  ELSE IF createGeneratorThrows(e) THEN 500
  ELSE IF req.upstream = "ok" THEN 200
  ELSE 500

\* ingestRouter.post('/'), .post('/batch') and .get('/stats'); /stats reads
\* no body.
IngestStatus(e, req) ==
  IF req.route # "ingestStats" /\ ~req.bodyValid THEN 400
  ELSE IF getProcessorThrows(e) THEN 500
  ELSE IF req.upstream = "ok" THEN 200
  ELSE 500

\* testRouter.post('/generate'): zValidator answers 400 before the handler.
TestGenerateStatus(e, req) ==
  IF ~req.bodyValid THEN 400
  ELSE IF ~getTestGenerator(e) THEN 503
  ELSE IF req.upstream = "ok" THEN 200
  ELSE 500

ServiceStatus(e, req) ==
  CASE req.route = "chat" -> ChatStatus(e, req)
    [] req.route \in {"generate", "modernize"} -> GenerateStatus(e, req)
    [] req.route \in {"ingest", "ingestBatch", "ingestStats"} -> IngestStatus(e, req)
    [] req.route = "testGenerate" -> TestGenerateStatus(e, req)

\* Whether the handler got as far as calling the upstream service.
ServiceCalled(e, req) ==
  /\ req.route = "ingestStats" \/ req.bodyValid
  /\ ~MissingCredentials(req.route, e)

\* One request served by one of the routes.
ServiceRoute(req) ==
  /\ svc' = [route |-> req.route, bodyValid |-> req.bodyValid,
             upstream |-> req.upstream, called |-> ServiceCalled(env, req),
             status |-> ServiceStatus(env, req)]
  /\ UNCHANGED <<cacheVars, rateVars, projVars, chunkVars, diffVars, batchVars,
                 compVars, wbVars, uploadVars, trVars>>

NextService == \E req \in ServiceRequests : ServiceRoute(req)

(***************************************************************************)
(* 10. Upload jobs: job-manager.ts and processFilesInBackground            *)
(***************************************************************************)

\* Bound of the upload model: the most files one upload holds.
MaxFiles == 3

FileNames == {"a.md", "b.md"}

\* The name lists createJob can get: the route answers 400 before createJob
\* when no supported file was uploaded. Two uploaded files may share a name.
UploadNameLists == UNION {[1..n -> FileNames] : n \in 1..MaxFiles}

IsProcessed(status) == status \in {"completed", "failed"}

NoJob ==
  [status |-> "", totalFiles |-> 0, processedFiles |-> 0, files |-> <<>>]

\* createJob(language, version, filenames)
createJob(filenames) ==
  [status         |-> "pending",
   totalFiles     |-> Len(filenames),
   processedFiles |-> 0,
   files          |-> [k \in 1..Len(filenames) |->
                         [filename |-> filenames[k], status |-> "pending"]]]

\* updateJobStatus(jobId, status)
updateJobStatus(job, status) == [job EXCEPT !.status = status]

\* job.files.find((f) => f.filename === filename): the index of the first
\* entry with that name, 0 when there is none.
FindFile(files, filename) ==
  IF \E k \in 1..Len(files) : files[k].filename = filename
    THEN CHOOSE k \in 1..Len(files) :
           /\ files[k].filename = filename
           /\ \A j \in 1..(k - 1) : files[j].filename # filename
    ELSE 0

\* updateFileStatus with a running count in place of the recount.
updateFileStatus_counting(job, filename, status) ==
  LET idx == FindFile(job.files, filename)
  IN IF idx = 0 THEN job
     ELSE LET files     == [job.files EXCEPT ![idx].status = status]
              processed == job.processedFiles + (IF IsProcessed(status) THEN 1 ELSE 0)
          IN [job EXCEPT
                !.files = files,
                !.processedFiles = processed,
                !.status =
                  IF processed = job.totalFiles THEN "completed"
                  ELSE IF \E k \in 1..Len(files) : files[k].status = "processing"
                    THEN "processing"
                  ELSE @]

\* updateFileStatus(jobId, filename, update), for an update that sets status.
updateFileStatus(job, filename, status) ==
  LET idx == FindFile(job.files, filename)
  IN IF idx = 0 THEN job
     ELSE LET files     == [job.files EXCEPT ![idx].status = status]
              processed == Cardinality({k \in 1..Len(files) :
                                          IsProcessed(files[k].status)})
          IN [job EXCEPT
                !.files = files,
                !.processedFiles = processed,
                !.status =
                  IF processed = job.totalFiles THEN "completed"
                  ELSE IF \E k \in 1..Len(files) : files[k].status = "processing"
                    THEN "processing"
                  ELSE @]

\* Math.round(x / y * 100) for 0 <= x and 0 < y.
RoundPercent(x, y) == (200 * x + y) \div (2 * y)

\* getJobProgress(jobId)
getJobProgress(job) ==
  [status    |-> job.status,
   progress  |-> IF job.totalFiles > 0
                   THEN RoundPercent(job.processedFiles, job.totalFiles)
                   ELSE 0,
   completed |-> Cardinality({k \in 1..Len(job.files) :
                                job.files[k].status = "completed"}),
   failed    |-> Cardinality({k \in 1..Len(job.files) :
                                job.files[k].status = "failed"}),
   total     |-> job.totalFiles]

NotSeen == [status |-> "", progress |-> 0, completed |-> 0, failed |-> 0, total |-> 0]

\* Auto-cleanup jobs older than 1 hour
JOB_TTL_MS == 60 * 60 * 1000

\* Bounds of the upload model's clock: the time between two observations of
\* the clock, and the number of such steps.
UploadTickMs == 1800000

MaxUploadTicks == 3

\* A second upload's job, for what one job's timer and updates do to another
\* entry of the jobs map.
OtherNames == <<"b.md">>

NoOtherJob == [created |-> FALSE, inMap |-> FALSE, createdAt |-> 0, job |-> NoJob]

\* pc, names, i: the position of processFilesInBackground for the job.
\* job, inMap, createdAt: the job object, and whether the jobs map holds it.
\* outcomes: how the files processed so far settled, in upload order.
\* seen: the last answer of GET /api/upload/status/:jobId.
UploadIdle ==
  [pc |-> "none", names |-> <<>>, i |-> 0, job |-> NoJob, inMap |-> FALSE,
   createdAt |-> 0, now |-> 0, outcomes |-> <<>>,
   seen |-> [http |-> 0, data |-> NotSeen], other |-> NoOtherJob]

\* scheduleCleanup(jobId): the timer set at creation has fired by `now`.
CleanupFired(createdAt, now) == now - createdAt >= JOB_TTL_MS

\* An update that goes through whether or not the map holds the job.
IfInMap_always(inMap, job, updated) == updated

\* jobs.get(jobId) in updateJobStatus and updateFileStatus: an update reaches
\* the job only while the map holds it.
IfInMap(inMap, job, updated) == IF inMap THEN updated ELSE job

\* The catch block after getProcessor() threw: every file is marked failed.
RECURSIVE MarkAllFailed(_, _)
MarkAllFailed(job, names) ==
  IF names = <<>> THEN job
  ELSE MarkAllFailed(updateFileStatus(job, Head(names), "failed"), Tail(names))

\* uploadRouter.post('/'): createJob, then processFilesInBackground up to
\* its await getProcessor().
UploadPost(names) ==
  /\ upload.pc = "none"
  /\ upload' = [upload EXCEPT
                  !.pc = "init",
                  !.names = names,
                  !.inMap = TRUE,
                  !.createdAt = upload.now,
                  !.job = updateJobStatus(createJob(names), "processing")]
  /\ UNCHANGED exceptUpload

\* A second POST /api/upload; its background processing stays at
\* await getProcessor().
OtherUploadPost ==
  /\ ~upload.other.created
  /\ upload' = [upload EXCEPT
                  !.other = [created |-> TRUE, inMap |-> TRUE,
                             createdAt |-> upload.now,
                             job |-> updateJobStatus(createJob(OtherNames),
                                                     "processing")]]
  /\ UNCHANGED exceptUpload

\* processFilesInBackground resumed after await getProcessor(): either the
\* catch block, or the first turn of the loop up to its await parseFile(file).
ProcessorSettles(ok) ==
  /\ upload.pc = "init"
  /\ upload' =
       IF ok
         THEN [upload EXCEPT
                 !.pc = "file", !.i = 1,
                 !.job = IfInMap(upload.inMap, @,
                           updateFileStatus(@, upload.names[1], "processing"))]
         ELSE [upload EXCEPT
                 !.pc = "done",
                 !.job = IfInMap(upload.inMap, @,
                           updateJobStatus(MarkAllFailed(@, upload.names), "failed"))]
  /\ UNCHANGED exceptUpload

\* The loop resumed after parseFile / ingestDocument settled for file i: the
\* file is marked completed or failed, then the next turn runs up to its
\* await, or the loop ends and the job is marked completed.
FileSettles(status) ==
  /\ upload.pc = "file"
  /\ LET marked == updateFileStatus(upload.job, upload.names[upload.i], status)
     IN upload' =
          IF upload.i < Len(upload.names)
            THEN [upload EXCEPT
                    !.i = @ + 1,
                    !.outcomes = Append(@, status),
                    !.job = IfInMap(upload.inMap, @,
                              updateFileStatus(marked, upload.names[upload.i + 1],
                                               "processing"))]
            ELSE [upload EXCEPT
                    !.pc = "done",
                    !.outcomes = Append(@, status),
                    !.job = IfInMap(upload.inMap, @,
                              updateJobStatus(marked, "completed"))]
  /\ UNCHANGED exceptUpload

\* uploadRouter.get('/status/:jobId') for the job's id: 404 when
\* getJobProgress returns null.
GetUploadStatus ==
  /\ upload.pc # "none"
  /\ upload' = [upload EXCEPT
                  !.seen = IF upload.inMap
                             THEN [http |-> 200, data |-> getJobProgress(upload.job)]
                             ELSE [http |-> 404, data |-> NotSeen]]
  /\ UNCHANGED exceptUpload

\* Time passes; the cleanup timers that have come due run jobs.delete(jobId),
\* each for its own id.
UploadTick ==
  /\ upload.now < MaxUploadTicks * UploadTickMs
  /\ LET now == upload.now + UploadTickMs
     IN upload' = [upload EXCEPT
                     !.now = now,
                     !.inMap = @ /\ ~CleanupFired(upload.createdAt, now),
                     !.other.inMap = @ /\ ~CleanupFired(upload.other.createdAt, now)]
  /\ UNCHANGED exceptUpload

NextUpload ==
  \/ \E names \in UploadNameLists : UploadPost(names)
  \/ OtherUploadPost
  \/ \E ok \in BOOLEAN : ProcessorSettles(ok)
  \/ \E status \in {"completed", "failed"} : FileSettles(status)
  \/ GetUploadStatus
  \/ UploadTick

(***************************************************************************)
(* 11. LLMTestGenerator.runTests and compareTests                          *)
(***************************************************************************)

\* Bound of the test-runner model: the most tests one request holds.
MaxTests == 2

\* Program output and expected output are sequences of characters; CR, LF and
\* SP stand for carriage return, line feed and space.
OutputWhitespace == {"CR", "LF", "SP"}

RECURSIVE ReplaceCRLF(_)
ReplaceCRLF(s) ==
  IF Len(s) = 0 THEN <<>>
  ELSE IF Len(s) >= 2 /\ s[1] = "CR" /\ s[2] = "LF"
    THEN <<"LF">> \o ReplaceCRLF(SubSeq(s, 3, Len(s)))
  ELSE <<s[1]>> \o ReplaceCRLF(Tail(s))

ReplaceCR(s) == [k \in 1..Len(s) |-> IF s[k] = "CR" THEN "LF" ELSE s[k]]

\* String.prototype.trim()
TrimOutput(s) ==
  LET keep == {k \in 1..Len(s) : s[k] \notin OutputWhitespace}
  IN IF keep = {} THEN <<>>
     ELSE SubSeq(s, CHOOSE k \in keep : \A j \in keep : k <= j,
                    CHOOSE k \in keep : \A j \in keep : j <= k)

\* normalizeOutput(output)
normalizeOutput(output) == TrimOutput(ReplaceCR(ReplaceCRLF(output)))

\* compareOutputs(expected, actual)
compareOutputs(expected, actual) == normalizeOutput(expected) = normalizeOutput(actual)

\* The tests a request may hold; ids are the caller's and may repeat.
GeneratedTests ==
  {[id |-> "t1", type |-> "io",   expectedOutput |-> <<"4", "2">>],
   [id |-> "t2", type |-> "unit", expectedOutput |-> <<>>],
   [id |-> "t2", type |-> "io",   expectedOutput |-> <<"4", "2", "LF">>]}

\* What compiler.execute does for one test: throw, or return an ExecuteResult
\* told by its status, its runResult's status ("" = no runResult) and stdout.
ExecThrows == [threw |-> TRUE, status |-> "", runStatus |-> "", stdout |-> <<>>]

ExecReturns(status, runStatus, stdout) ==
  [threw |-> FALSE, status |-> status, runStatus |-> runStatus, stdout |-> stdout]

OriginalExecs ==
  {ExecThrows,
   ExecReturns("error", "", <<>>),
   ExecReturns("success", "", <<>>),
   ExecReturns("success", "timeout", <<>>),
   ExecReturns("success", "runtime_error", <<"4">>),
   ExecReturns("success", "success", <<"4", "2", "CR", "LF">>),
   ExecReturns("success", "success", <<"7">>)}

ModernizedExecs ==
  {ExecReturns("success", "timeout", <<>>),
   ExecReturns("success", "success", <<"4", "2">>),
   ExecReturns("success", "success", <<"SP", "LF">>)}

\* A TestResult: actualOutput and expectedOutput are set on some paths only.
TestResult(test, status, hasActual, actual, hasExpected) ==
  [testId |-> test.id, status |-> status,
   hasActualOutput |-> hasActual, actualOutput |-> actual,
   hasExpectedOutput |-> hasExpected,
   expectedOutput |-> IF hasExpected THEN test.expectedOutput ELSE <<>>]

\* runTests, one turn of the for loop: the result pushed for the test.
ResultFor(test, exec) ==
  IF test.type # "io" THEN TestResult(test, "error", FALSE, <<>>, FALSE)
  ELSE IF exec.threw THEN TestResult(test, "error", FALSE, <<>>, FALSE)
  ELSE IF exec.status = "error" THEN TestResult(test, "error", FALSE, <<>>, FALSE)
  ELSE IF exec.runStatus = "" THEN TestResult(test, "error", FALSE, <<>>, FALSE)
  ELSE IF exec.runStatus = "timeout" THEN TestResult(test, "timeout", FALSE, <<>>, FALSE)
  ELSE IF exec.runStatus \in {"runtime_error", "error"}
    THEN TestResult(test, "error", TRUE, exec.stdout, FALSE)
  ELSE TestResult(test,
                  IF compareOutputs(test.expectedOutput, exec.stdout)
                    THEN "passed" ELSE "failed",
                  TRUE, exec.stdout, TRUE)

\* runTests, the for loop: one push per turn.
RECURSIVE RunLoop(_, _, _)
RunLoop(tests, execs, results) ==
  IF tests = <<>> THEN results
  ELSE RunLoop(Tail(tests), Tail(execs),
               Append(results, ResultFor(Head(tests), Head(execs))))

CountStatus(results, statuses) ==
  Cardinality({k \in 1..Len(results) : results[k].status \in statuses})

\* The statuses summary.errors counts, with the timeouts left out.
ErrorStatuses_errorOnly == {"error"}

\* The statuses summary.errors counts.
ErrorStatuses == {"error", "timeout"}

\* runTests(request), the compiler provider being available.
runTests(tests, execs) ==
  LET results == RunLoop(tests, execs, <<>>)
      summary == [total  |-> Len(results),
                  passed |-> CountStatus(results, {"passed"}),
                  failed |-> CountStatus(results, {"failed"}),
                  errors |-> CountStatus(results, ErrorStatuses)]
  IN [success |-> summary.errors = 0, results |-> results, summary |-> summary]

\* compareTests, the branch one turn of the counting loop takes.
CompareBranch(orig, mod, i) ==
  IF i > Len(orig) \/ i > Len(mod) THEN "errors"
  ELSE IF orig[i].status = "error" \/ mod[i].status = "error" THEN "errors"
  ELSE IF compareOutputs(IF orig[i].hasActualOutput THEN orig[i].actualOutput ELSE <<>>,
                         IF mod[i].hasActualOutput THEN mod[i].actualOutput ELSE <<>>)
    THEN "matching"
  ELSE "different"

\* compareTests(request): counted[i] is the counter the i-th test went to.
compareTests(tests, origExecs, modExecs) ==
  LET originalResults   == runTests(tests, origExecs)
      modernizedResults == runTests(tests, modExecs)
      counted == [i \in 1..Len(tests) |->
                    CompareBranch(originalResults.results, modernizedResults.results, i)]
      count(branch) == Cardinality({i \in 1..Len(tests) : counted[i] = branch})
  IN [success |-> count("errors") = 0 /\ count("different") = 0,
      originalResults   |-> originalResults.results,
      modernizedResults |-> modernizedResults.results,
      comparison |-> [matching  |-> count("matching"),
                      different |-> count("different"),
                      errors    |-> count("errors")],
      counted |-> counted]

NoTestRun ==
  [success |-> FALSE, results |-> <<>>,
   summary |-> [total |-> 0, passed |-> 0, failed |-> 0, errors |-> 0]]

NoComparison ==
  [success |-> FALSE, originalResults |-> <<>>, modernizedResults |-> <<>>,
   comparison |-> [matching |-> 0, different |-> 0, errors |-> 0],
   counted |-> <<>>]

\* The requests with what the compiler does for each test of each run.
TestRunInputs ==
  UNION {[tests : [1..n -> GeneratedTests],
          origExecs : [1..n -> OriginalExecs],
          modExecs : [1..n -> ModernizedExecs]] : n \in 0..MaxTests}

\* POST /api/test/run: generator.runTests on the request's code.
RunTestsCall ==
  /\ tr.pc = "idle"
  /\ tr' = [tr EXCEPT !.pc = "ran", !.run = runTests(tr.tests, tr.origExecs)]
  /\ UNCHANGED exceptTests

\* POST /api/test/compare: generator.compareTests on both codes.
CompareTestsCall ==
  /\ tr.pc = "idle"
  /\ tr' = [tr EXCEPT !.pc = "compared",
                      !.cmp = compareTests(tr.tests, tr.origExecs, tr.modExecs)]
  /\ UNCHANGED exceptTests

NextTests == RunTestsCall \/ CompareTestsCall

(***************************************************************************)
(* Initial states and specifications                                       *)
(***************************************************************************)

\* Values of the variables of a subsystem that a specification leaves alone.
Unused == <<>>

InitCache ==
  /\ llm_cache = {} /\ clock = 0 /\ gen = GenAllIdle
  /\ requestCounts = EmptyMap /\ rlNow = 0 /\ rlLast = NoRequest /\ rlWindow = EmptyMap
  /\ projects = {} /\ projLast = NoProjectRequest
  /\ chunkIn = Unused /\ chunkOut = Unused /\ spec_documents = Unused /\ ingestOut = Unused
  /\ diffFiles = Unused /\ diffDataCache = Unused /\ diffCalls = Unused
  /\ batch = Unused
  /\ env = Unused /\ comp = Unused
  /\ wb = Unused
  /\ svc = Unused
  /\ upload = Unused
  /\ tr = Unused

InitRate ==
  /\ requestCounts = EmptyMap /\ rlNow = 0 /\ rlLast = NoRequest /\ rlWindow = EmptyMap
  /\ llm_cache = {} /\ clock = 0 /\ gen = GenAllIdle
  /\ projects = {} /\ projLast = NoProjectRequest
  /\ chunkIn = Unused /\ chunkOut = Unused /\ spec_documents = Unused /\ ingestOut = Unused
  /\ diffFiles = Unused /\ diffDataCache = Unused /\ diffCalls = Unused
  /\ batch = Unused
  /\ env = Unused /\ comp = Unused
  /\ wb = Unused
  /\ svc = Unused
  /\ upload = Unused
  /\ tr = Unused

InitProj ==
  /\ projects = {} /\ projLast = NoProjectRequest
  /\ llm_cache = {} /\ clock = 0 /\ gen = GenAllIdle
  /\ requestCounts = EmptyMap /\ rlNow = 0 /\ rlLast = NoRequest /\ rlWindow = EmptyMap
  /\ chunkIn = Unused /\ chunkOut = Unused /\ spec_documents = Unused /\ ingestOut = Unused
  /\ diffFiles = Unused /\ diffDataCache = Unused /\ diffCalls = Unused
  /\ batch = Unused
  /\ env = Unused /\ comp = Unused
  /\ wb = Unused
  /\ svc = Unused
  /\ upload = Unused
  /\ tr = Unused

SegmentLists ==
  UNION {[1..k -> Segments] : k \in 0..MaxSegments}

InitChunk ==
  /\ chunkIn \in [segs : SegmentLists, options : ChunkOptions]
  /\ chunkOut = NotCalled /\ spec_documents = <<>> /\ ingestOut = NotCalled
  /\ llm_cache = {} /\ clock = 0 /\ gen = GenAllIdle
  /\ requestCounts = EmptyMap /\ rlNow = 0 /\ rlLast = NoRequest /\ rlWindow = EmptyMap
  /\ projects = {} /\ projLast = NoProjectRequest
  /\ diffFiles = Unused /\ diffDataCache = Unused /\ diffCalls = Unused
  /\ batch = Unused
  /\ env = Unused /\ comp = Unused
  /\ wb = Unused
  /\ svc = Unused
  /\ upload = Unused
  /\ tr = Unused

InitDiff ==
  /\ diffFiles \in [DiffKeys -> FileVariants]
  /\ diffDataCache = EmptyMap /\ diffCalls = DiffAllIdle
  /\ llm_cache = {} /\ clock = 0 /\ gen = GenAllIdle
  /\ requestCounts = EmptyMap /\ rlNow = 0 /\ rlLast = NoRequest /\ rlWindow = EmptyMap
  /\ projects = {} /\ projLast = NoProjectRequest
  /\ chunkIn = Unused /\ chunkOut = Unused /\ spec_documents = Unused /\ ingestOut = Unused
  /\ batch = Unused
  /\ env = Unused /\ comp = Unused
  /\ wb = Unused
  /\ svc = Unused
  /\ upload = Unused
  /\ tr = Unused

InitBatch ==
  /\ batch \in {BatchIdle(n) : n \in 0..MaxDocs}
  /\ llm_cache = {} /\ clock = 0 /\ gen = GenAllIdle
  /\ requestCounts = EmptyMap /\ rlNow = 0 /\ rlLast = NoRequest /\ rlWindow = EmptyMap
  /\ projects = {} /\ projLast = NoProjectRequest
  /\ chunkIn = Unused /\ chunkOut = Unused /\ spec_documents = Unused /\ ingestOut = Unused
  /\ diffFiles = Unused /\ diffDataCache = Unused /\ diffCalls = Unused
  /\ env = Unused /\ comp = Unused
  /\ wb = Unused
  /\ svc = Unused
  /\ upload = Unused
  /\ tr = Unused

InitCompile ==
  /\ env \in [COMPILER_PROVIDER : CompilerProviderSettings,
               JUDGE0_API_KEY : {"", "key"}, ANTHROPIC_API_KEY : {"", "key"}]
  /\ comp = CompIdle
  /\ requestCounts = EmptyMap /\ rlNow = 0 /\ rlLast = NoRequest /\ rlWindow = EmptyMap
  /\ llm_cache = {} /\ clock = 0 /\ gen = GenAllIdle
  /\ projects = {} /\ projLast = NoProjectRequest
  /\ chunkIn = Unused /\ chunkOut = Unused /\ spec_documents = Unused /\ ingestOut = Unused
  /\ diffFiles = Unused /\ diffDataCache = Unused /\ diffCalls = Unused
  /\ batch = Unused
  /\ wb = Unused
  /\ svc = Unused
  /\ upload = Unused
  /\ tr = Unused

InitWandbox ==
  /\ wb \in [response : WandboxApiResponses, parsed : {FALSE}, result : {NotParsed}]
  /\ llm_cache = {} /\ clock = 0 /\ gen = GenAllIdle
  /\ requestCounts = EmptyMap /\ rlNow = 0 /\ rlLast = NoRequest /\ rlWindow = EmptyMap
  /\ projects = {} /\ projLast = NoProjectRequest
  /\ chunkIn = Unused /\ chunkOut = Unused /\ spec_documents = Unused /\ ingestOut = Unused
  /\ diffFiles = Unused /\ diffDataCache = Unused /\ diffCalls = Unused
  /\ batch = Unused
  /\ env = Unused /\ comp = Unused
  /\ svc = Unused
  /\ upload = Unused
  /\ tr = Unused

InitService ==
  /\ env \in [SUPABASE_URL : {"", "url"}, SUPABASE_SERVICE_ROLE_KEY : {"", "key"},
              ANTHROPIC_API_KEY : {"", "key"}, OPENAI_API_KEY : {"", "key"}]
  /\ svc = NoServiceResponse
  /\ llm_cache = {} /\ clock = 0 /\ gen = GenAllIdle
  /\ requestCounts = EmptyMap /\ rlNow = 0 /\ rlLast = NoRequest /\ rlWindow = EmptyMap
  /\ projects = {} /\ projLast = NoProjectRequest
  /\ chunkIn = Unused /\ chunkOut = Unused /\ spec_documents = Unused /\ ingestOut = Unused
  /\ diffFiles = Unused /\ diffDataCache = Unused /\ diffCalls = Unused
  /\ batch = Unused
  /\ comp = Unused /\ wb = Unused
  /\ upload = Unused
  /\ tr = Unused

InitUpload ==
  /\ upload = UploadIdle
  /\ llm_cache = {} /\ clock = 0 /\ gen = GenAllIdle
  /\ requestCounts = EmptyMap /\ rlNow = 0 /\ rlLast = NoRequest /\ rlWindow = EmptyMap
  /\ projects = {} /\ projLast = NoProjectRequest
  /\ chunkIn = Unused /\ chunkOut = Unused /\ spec_documents = Unused /\ ingestOut = Unused
  /\ diffFiles = Unused /\ diffDataCache = Unused /\ diffCalls = Unused
  /\ batch = Unused
  /\ env = Unused /\ comp = Unused /\ wb = Unused /\ svc = Unused
  /\ tr = Unused

InitTests ==
  /\ tr \in {[pc |-> "idle", tests |-> in.tests, origExecs |-> in.origExecs,
              modExecs |-> in.modExecs, run |-> NoTestRun, cmp |-> NoComparison] :
               in \in TestRunInputs}
  /\ llm_cache = {} /\ clock = 0 /\ gen = GenAllIdle
  /\ requestCounts = EmptyMap /\ rlNow = 0 /\ rlLast = NoRequest /\ rlWindow = EmptyMap
  /\ projects = {} /\ projLast = NoProjectRequest
  /\ chunkIn = Unused /\ chunkOut = Unused /\ spec_documents = Unused /\ ingestOut = Unused
  /\ diffFiles = Unused /\ diffDataCache = Unused /\ diffCalls = Unused
  /\ batch = Unused
  /\ env = Unused /\ comp = Unused /\ wb = Unused /\ svc = Unused /\ upload = Unused

SpecCache == InitCache /\ [][NextCache]_vars

SpecRate == InitRate /\ [][NextRate]_vars

SpecRateLog == InitRate /\ [][NextRateLog]_vars

SpecProj == InitProj /\ [][NextProj]_vars

SpecChunk == InitChunk /\ [][NextChunk]_vars

SpecDiff == InitDiff /\ [][NextDiff]_vars

SpecBatch == InitBatch /\ [][NextBatch]_vars

SpecCompile == InitCompile /\ [][NextCompile]_vars

SpecWandbox == InitWandbox /\ [][NextWandbox]_vars

SpecService == InitService /\ [][NextService]_vars

SpecUpload == InitUpload /\ [][NextUpload]_vars

SpecTests == InitTests /\ [][NextTests]_vars

\* Every awaited call of the background processing eventually settles.
SpecUploadLive ==
  /\ InitUpload /\ [][NextUpload]_vars
  /\ WF_vars(\E ok \in BOOLEAN : ProcessorSettles(ok))
  /\ WF_vars(\E status \in {"completed", "failed"} : FileSettles(status))

(***************************************************************************)
(* Claims                                                                  *)
(***************************************************************************)

\* C1: a finished generate call returned the stored response with cached =
\* TRUE and made no LLM call if and only if, at its lookup, llm_cache held a
\* row with its prompt hash whose expires_at was later than the clock.
C1_CachedIffValidRow ==
  \A c \in GenCalls :
    gen[c].pc = "done" =>
      ((gen[c].cached /\ gen[c].llmCalls = 0
          /\ gen[c].content = gen[c].lookupResponse)
        <=> gen[c].lookupValid)

\* C2: when a generate call that overlapped no other call found no valid row
\* for its prompt hash (no row, or only an expired one) and has saved the
\* LLM's response, llm_cache holds a row for that hash that carries the new
\* response and expires CACHE_EXPIRY_HOURS after the save.
C2_SaveLeavesFreshRow ==
  \A c \in GenCalls :
    (gen[c].pc = "done" /\ ~gen[c].cached /\ ~gen[c].lookupValid /\ gen[c].alone)
      => gen[c].savedFresh

\* C3: per ip key the requests admitted in the current window, over both
\* routes, number the record's count and at most RATE_LIMIT; the window ends
\* RATE_WINDOW after it opened; a request refused is answered 429 and leaves
\* the record as it was; a request in a window that already admitted
\* RATE_LIMIT is refused; a request after resetAt opens a window with count 1.
C3_TenPerWindow ==
  /\ DOMAIN rlWindow = DOMAIN requestCounts
  /\ \A ip \in DOMAIN requestCounts :
       /\ rlWindow[ip].admitted = requestCounts[ip].count
       /\ rlWindow[ip].admitted <= RATE_LIMIT
       /\ requestCounts[ip].resetAt = rlWindow[ip].openedAt + RATE_WINDOW
  /\ rlLast.route # "none" =>
       LET inWindow == rlLast.had /\ rlLast.at <= rlLast.before.resetAt
       IN /\ ~rlLast.admitted =>
               /\ rlLast.status = 429
               /\ inWindow
               /\ requestCounts[rlLast.ip] = rlLast.before
          /\ (inWindow /\ rlLast.before.count >= RATE_LIMIT) => ~rlLast.admitted
          /\ (inWindow /\ rlLast.admitted) =>
               requestCounts[rlLast.ip] =
                 [count |-> rlLast.before.count + 1,
                  resetAt |-> rlLast.before.resetAt]
          /\ ~inWindow =>
               /\ rlLast.admitted
               /\ requestCounts[rlLast.ip] =
                    [count |-> 1, resetAt |-> rlLast.at + RATE_WINDOW]

\* C3 witness: a request to /execute is refused with 429 in a window whose
\* RATE_LIMIT admitted requests went to both routes.
C3_Witness ==
  /\ rlLast.route = "execute"
  /\ ~rlLast.admitted
  /\ rlWindow[rlLast.ip].admitted = RATE_LIMIT
  /\ rlWindow[rlLast.ip].routes = {"compile", "execute"}

\* C3 witness of a reopened window: a request after resetAt found an elapsed
\* record that had admitted RATE_LIMIT requests.
C3_WitnessReopen ==
  /\ rlLast.route # "none"
  /\ rlLast.had
  /\ rlLast.before.resetAt < rlLast.at
  /\ rlLast.before.count = RATE_LIMIT

\* C4: every project a /api/projects request listed, read, changed or
\* deleted is owned by the caller.
C4_OnlyOwnerAccess ==
  projLast.op \in {"list", "get", "update", "delete"} =>
    \A r \in projLast.rows : r.user_id = projLast.caller

\* C5: every string chunkText returned has at most maxTokens * 4 characters,
\* 2000 with the default options.
C5_ChunkLengthBound ==
  chunkOut.op = "chunkText" =>
    \A i \in 1..Len(chunkOut.lengths) :
      /\ chunkOut.lengths[i] <= MaxTokensOf(chunkIn.options) * CHARS_PER_TOKEN
      /\ ~chunkIn.options.hasMaxTokens => chunkOut.lengths[i] <= 2000

\* C5 witness: with the default options chunkText split a text into several
\* chunks, one of them exactly 2000 characters long.
C5_Witness ==
  /\ chunkOut.op = "chunkText"
  /\ ~chunkIn.options.hasMaxTokens
  /\ Len(chunkOut.lengths) >= 2
  /\ \E i \in 1..Len(chunkOut.lengths) : chunkOut.lengths[i] = 2000

\* C6: every chunk after the first starts exactly overlapTokens * 4
\* characters before the text position at which the previous chunk ended.
C6_FixedOverlap ==
  chunkOut.op = "chunkText" =>
    \A i \in 2..Len(chunkOut.spans) :
      LET previousEnd == Min(chunkOut.spans[i - 1].endIndex, chunkOut.textLength)
      IN previousEnd - chunkOut.spans[i].startIndex =
           OverlapTokensOf(chunkIn.options) * CHARS_PER_TOKEN

\* C7: a fulfilled ingestDocument call inserted n >= 1 rows whose chunkIndex
\* values are 0, 1, ..., n - 1 in order, all with totalChunks = n, and
\* returned chunksCreated = n; content of at most 500 estimated tokens gave
\* exactly one row.
C7_ChunkIndexes ==
  (ingestOut.op = "ingestDocument" /\ ingestOut.status = "fulfilled") =>
    LET n == Len(spec_documents)
    IN /\ n >= 1
       /\ \A i \in 1..n : /\ spec_documents[i].chunkIndex = i - 1
                          /\ spec_documents[i].totalChunks = n
       /\ ingestOut.chunksCreated = n
       /\ ingestOut.totalTokens <= 500 => n = 1

\* C7 witness: a fulfilled ingestDocument call that inserted three or more
\* rows.
C7_Witness ==
  /\ ingestOut.op = "ingestDocument"
  /\ ingestOut.status = "fulfilled"
  /\ Len(spec_documents) >= 3

\* The items a version pair's file holds for a category (none when the file
\* or the category is absent).
PairItems(pair, cat) ==
  LET file == diffFiles[getDiffKey(pair[1], pair[2])]
  IN IF file.found /\ cat \in DOMAIN file.data THEN file.data[cat] ELSE <<>>

RECURSIVE PathItems(_, _)
PathItems(path, cat) ==
  IF path = <<>> THEN <<>>
  ELSE PairItems(Head(path), cat) \o PathItems(Tail(path), cat)

ExcludedByFilter(filter, cat) ==
  filter.has /\ Len(filter.cats) > 0 /\ ~Includes(filter.cats, cat)

\* C8: in every result analyzeDiff returns, each category not excluded by a
\* non-empty filter is exactly the concatenation, in path order, of that
\* category's arrays in the files of the pairs on the path, and totalChanges
\* is the number of items in the five returned arrays.
C8_ConcatenationInPathOrder ==
  \A c \in DiffCallIds :
    diffCalls[c].pc = "returned" =>
      LET call == diffCalls[c]
      IN /\ \A cat \in Categories :
              ~ExcludedByFilter(call.request.categories, cat) =>
                call.result.diff[cat] = PathItems(call.path, cat)
         /\ call.result.totalChanges =
              Len(call.result.diff["newFeatures"]) +
              Len(call.result.diff["behaviorChanges"]) +
              Len(call.result.diff["deprecated"]) +
              Len(call.result.diff["removed"]) +
              Len(call.result.diff["libraryChanges"])

\* C8 witness: a result merged from two pairs whose files both hold items,
\* with an item that occurs in both files returned twice.
C8_Witness ==
  \E c \in DiffCallIds :
    /\ diffCalls[c].pc = "returned"
    /\ Len(diffCalls[c].path) = 2
    /\ Len(diffCalls[c].allCategories) = 2
    /\ \E i, j \in 1..Len(diffCalls[c].result.diff["newFeatures"]) :
         /\ i < j
         /\ diffCalls[c].result.diff["newFeatures"][i] =
              diffCalls[c].result.diff["newFeatures"][j]
    /\ diffCalls[c].result.totalChanges > 0

\* A contiguous chain of pairs from source to target.
IsChain(path, source, target) ==
  /\ Len(path) >= 1
  /\ path[1][1] = source
  /\ path[Len(path)][2] = target
  /\ \A k \in 1..(Len(path) - 1) : path[k][2] = path[k + 1][1]

\* The hardcoded pair list contains a chain from source to target.
ChainExists(source, target) ==
  \E n \in 1..Len(getVersionPairs) :
    \E pick \in [1..n -> 1..Len(getVersionPairs)] :
      IsChain([k \in 1..n |-> getVersionPairs[pick[k]]], source, target)

\* C9: whenever analyzeDiff returns a result, the pairs it merged form a
\* contiguous chain from sourceVersion to targetVersion; when the pair list
\* holds no such chain, the call throws 'No upgrade path found'.
C9_PathReachesTarget ==
  \A c \in DiffCallIds :
    LET call == diffCalls[c]
    IN /\ call.pc = "returned" =>
            IsChain(call.path, call.request.sourceVersion,
                    call.request.targetVersion)
       /\ (call.pc \in {"returned", "thrown"} /\
           ~ChainExists(call.request.sourceVersion, call.request.targetVersion)) =>
            (call.pc = "thrown" /\ call.error = "No upgrade path found")

\* C10: ingestBatch never rejects; when it returns, every input was processed
\* and sits in exactly one of successful and failed, the two lists together
\* have as many entries as there were inputs, and each failed entry carries
\* the input whose ingestDocument call rejected.
C10_BatchReportsEveryInput ==
  /\ batch.pc # "rejected"
  /\ batch.pc = "returned" =>
       /\ Len(batch.successful) + Len(batch.failed) = Len(batch.inputs)
       /\ \A d \in 1..Len(batch.inputs) :
            /\ Settled(batch.status, d)
            /\ Cardinality({k \in 1..Len(batch.successful) :
                  batch.successful[k].documentOf = batch.inputs[d].title}) =
                (IF batch.status[d] = "fulfilled" THEN 1 ELSE 0)
            /\ Cardinality({k \in 1..Len(batch.failed) :
                  batch.failed[k].input = batch.inputs[d]}) =
                (IF batch.status[d] = "fulfilled" THEN 0 ELSE 1)

\* C10 witness: a returned batch of more than one group in which a document
\* of the first group failed and a document of a later group succeeded.
C10_Witness ==
  /\ batch.pc = "returned"
  /\ Len(batch.inputs) > CONCURRENCY
  /\ \E d \in 1..CONCURRENCY : batch.status[d] = "rejected"
  /\ \E d \in (CONCURRENCY + 1)..Len(batch.inputs) : batch.status[d] = "fulfilled"
  /\ Len(batch.failed) >= 1
  /\ Len(batch.successful) >= 1

\* C11: during an ingestBatch call at most 5 ingestDocument calls are in
\* flight, and a document is started only when every document of the earlier
\* groups of five has settled.
C11_FiveInFlightGroupOrder ==
  /\ Cardinality({d \in 1..Len(batch.inputs) : batch.status[d] = "inflight"}) <= 5
  /\ \A d, e \in 1..Len(batch.inputs) :
       (batch.status[d] # "pending" /\ (e - 1) \div 5 < (d - 1) \div 5) =>
         Settled(batch.status, e)

\* C11 witness: the second group is in flight after the five documents of
\* the first group have settled, one of them rejected.
C11_Witness ==
  /\ batch.pc = "awaiting"
  /\ batch.i = CONCURRENCY
  /\ \E d \in (CONCURRENCY + 1)..Len(batch.inputs) : batch.status[d] = "inflight"
  /\ \A e \in 1..CONCURRENCY : Settled(batch.status, e)
  /\ \E e \in 1..CONCURRENCY : batch.status[e] = "rejected"

\* C12: two overlapping generate calls with the same prompt that both found
\* no valid cache row have each called the LLM; a cache write that failed
\* leaves its call completed, not rejected; and llm_cache never holds two rows
\* with the same prompt_hash.
C12_NoSingleFlightOneRowPerHash ==
  /\ \A c, d \in GenCalls :
       (/\ c # d
        /\ gen[c].pc = "done" /\ gen[d].pc = "done"
        /\ gen[c].promptHash = gen[d].promptHash
        /\ ~gen[c].alone /\ ~gen[d].alone
        /\ ~gen[c].lookupValid /\ ~gen[d].lookupValid) =>
         (/\ gen[c].llmCalls = 1 /\ gen[d].llmCalls = 1
          /\ ~gen[c].cached /\ ~gen[d].cached)
  /\ \A c \in GenCalls : gen[c].saveError => gen[c].pc = "done"
  /\ \A r, s \in llm_cache : r.prompt_hash = s.prompt_hash => r = s

\* C12 witness: two overlapping calls with the same prompt both missed the
\* cache, both called the LLM and got different answers, one cache write
\* failed, and both are done with one row for the hash.
C12_Witness ==
  /\ gen["g1"].pc = "done" /\ gen["g2"].pc = "done"
  /\ gen["g1"].promptHash = gen["g2"].promptHash
  /\ ~gen["g1"].alone /\ ~gen["g2"].alone
  /\ ~gen["g1"].lookupValid /\ ~gen["g2"].lookupValid
  /\ gen["g1"].llmCalls = 1 /\ gen["g2"].llmCalls = 1
  /\ gen["g1"].content # gen["g2"].content
  /\ gen["g1"].saveError # gen["g2"].saveError
  /\ Cardinality({r \in llm_cache : r.prompt_hash = gen["g1"].promptHash}) = 1

\* C13: every failure of a provider's compile or execute is a CompilerError
\* with a CompilerErrorCode: RATE_LIMITED after an upstream HTTP 429,
\* API_ERROR after any other non-OK response, COMPILE_TIMEOUT after a
\* timeout; and the compile routes answer 429 for RATE_LIMITED, 400 for
\* VALIDATION_FAILED and FORBIDDEN_CODE, 500 for every other error.
C13_FailuresMapToCodes ==
  /\ (comp.outcome.kind = "error" /\ comp.fetches > 0) =>
       /\ comp.outcome.isCompilerError
       /\ comp.outcome.code \in CompilerErrorCodes
       /\ comp.upstream = "http429" => comp.outcome.code = "RATE_LIMITED"
       /\ comp.upstream = "http500" => comp.outcome.code = "API_ERROR"
       /\ comp.upstream = "timeout" => comp.outcome.code = "COMPILE_TIMEOUT"
  /\ (/\ comp.pc = "responded"
      /\ comp.route \in {"compile", "execute"}
      /\ comp.outcome.kind = "error") =>
       comp.status =
         (IF comp.outcome.code = "RATE_LIMITED" THEN 429
          ELSE IF comp.outcome.code \in {"VALIDATION_FAILED", "FORBIDDEN_CODE"}
            THEN 400
          ELSE 500)

\* C14: submitAndWait makes at most 30 polls; a result it returns has a
\* status other than In Queue (1) and Processing (2); it throws
\* COMPILE_TIMEOUT exactly when 30 polls showed those states; and after a
\* non-OK submit or poll response the wait is over, with no further fetch.
C14_ThirtyPollsNoRetry ==
  comp.provider = "judge0" =>
    /\ comp.attempt <= 30
    /\ comp.returnedId \notin {1, 2}
    /\ comp.outcome.kind = "result" =>
         (comp.returnedId >= 3 /\ comp.upstream = "ok")
    /\ (comp.outcome.kind = "error" /\ comp.outcome.code = "COMPILE_TIMEOUT") <=>
         (comp.outcome.kind = "error" /\ comp.attempt = 30 /\ comp.upstream = "timeout")
    /\ ~comp.laterFetch
    /\ comp.pc \in {"submit", "poll"} => comp.upstream \in {"none", "ok"}
    /\ (comp.outcome.kind = "error" /\ comp.upstream \in {"http429", "http500", "networkError"}) =>
         comp.outcome.code \in {"RATE_LIMITED", "API_ERROR"}

\* C14 witness: a Judge0 call that ended with COMPILE_TIMEOUT after its
\* thirtieth poll.
C14_Witness ==
  /\ comp.provider = "judge0"
  /\ comp.outcome.kind = "error"
  /\ comp.outcome.code = "COMPILE_TIMEOUT"
  /\ comp.attempt = 30
  /\ comp.fetches = 31

\* The diagnostics of a type in an output: the lines of the form
\* file:line:col: type: message, in order.
DiagnosticsOf(output, type) ==
  LET hits == SelectSeq(output, LAMBDA l : l.pos /\ l.type = type)
  IN [k \in 1..Len(hits) |->
        [type |-> type, structured |-> TRUE, message |-> <<hits[k].message>>]]

\* C15: in a Wandbox CompileResult warnings holds the warning diagnostics of
\* the compiler output and errors holds its error diagnostics; an output with
\* warning diagnostics and no error diagnostic gives status 'success' and an
\* empty errors list, whatever else its lines say.
C15_WarningsAreNotErrors ==
  wb.parsed =>
    LET output == wb.result.stdout \o wb.result.stderr
    IN /\ wb.result.warnings = DiagnosticsOf(output, "warning")
       /\ wb.result.errors = DiagnosticsOf(output, "error")
       /\ (Len(DiagnosticsOf(output, "warning")) > 0 /\
           Len(DiagnosticsOf(output, "error")) = 0) =>
            (wb.result.status = "success" /\ wb.result.errors = <<>>)

\* C16: a request that needs an external service whose credentials are not
\* configured is answered 503 on the chat, generate, ingest and test routes
\* alike; 500 is answered only after the upstream service was called and
\* failed.
C16_Unconfigured503 ==
  svc.route # "" =>
    /\ ((svc.route = "ingestStats" \/ svc.bodyValid) /\ MissingCredentials(svc.route, env))
         => svc.status = 503
    /\ svc.status = 500 => (svc.called /\ svc.upstream # "ok")

\* C17: the result of analyzeDiff depends only on its request: calls with the
\* same (sourceVersion, targetVersion, categories) return equal results
\* whatever the other call asked for and however the two interleaved, and an
\* entry of diffDataCache, once loaded, is never modified.
C17_ResultDependsOnRequestOnly ==
  /\ [](\A c, d \in DiffCallIds :
          (/\ diffCalls[c].request = diffCalls[d].request
           /\ diffCalls[c].pc \in {"returned", "thrown"}
           /\ diffCalls[d].pc \in {"returned", "thrown"})
            => /\ diffCalls[c].pc = diffCalls[d].pc
               /\ diffCalls[c].result = diffCalls[d].result
               /\ diffCalls[c].error = diffCalls[d].error)
  /\ [](\A c \in DiffCallIds :
          diffCalls[c].pc = "returned" =>
            \A cat \in Categories :
              diffCalls[c].result.diff[cat] =
                IF ExcludedByFilter(diffCalls[c].request.categories, cat)
                  THEN <<>>
                  ELSE PathItems(getUpgradePath(diffCalls[c].request.sourceVersion,
                                                diffCalls[c].request.targetVersion), cat))
  /\ [][\A k \in DOMAIN diffDataCache :
          k \in DOMAIN diffDataCache' /\ diffDataCache'[k] = diffDataCache[k]]_vars

\* C17 witness: two calls with one request over a two-pair path have both
\* returned a non-empty filtered result, the path's files being cached.
C17_Witness ==
  \E c, d \in DiffCallIds :
    /\ c # d
    /\ diffCalls[c].pc = "returned" /\ diffCalls[d].pc = "returned"
    /\ diffCalls[c].request = diffCalls[d].request
    /\ Len(diffCalls[c].request.categories.cats) > 0
    /\ Len(diffCalls[c].path) = 2
    /\ diffCalls[c].result.totalChanges > 0
    /\ \A i \in 1..2 :
         getDiffKey(diffCalls[c].path[i][1], diffCalls[c].path[i][2])
           \in DOMAIN diffDataCache

\* C18: every source-code string handed to a compiler provider's compile or
\* execute has passed validateCode, whichever route started the compilation:
\* /api/compile, /api/compile/execute, /api/test/run or /api/test/compare.
C18_OnlyValidatedCodeCompiled ==
  \A k \in 1..Len(comp.passed) : validateCode(comp.passed[k]).valid

\* C19: whenever an upload job's status is 'completed' or 'failed', every file
\* of the job is 'completed' or 'failed', processedFiles = totalFiles and
\* getJobProgress reports progress 100, for every list of uploaded file names,
\* repeated names included.
C19_FinishedJobHasAllFilesProcessed ==
  IsProcessed(upload.job.status) =>
    /\ \A k \in 1..Len(upload.job.files) : IsProcessed(upload.job.files[k].status)
    /\ upload.job.processedFiles = upload.job.totalFiles
    /\ getJobProgress(upload.job).progress = 100

\* C20: over the life of an upload job, a file that reached 'completed' or
\* 'failed' never changes status again, processedFiles and the progress
\* getJobProgress reports never decrease, and the job status never moves back
\* from 'completed' or 'failed' to 'pending' or 'processing'.
C20_ProgressNeverMovesBack ==
  [][upload.pc # "none" =>
       /\ \A k \in 1..Len(upload.job.files) :
            IsProcessed(upload.job.files[k].status) =>
              upload'.job.files[k].status = upload.job.files[k].status
       /\ upload'.job.processedFiles >= upload.job.processedFiles
       /\ getJobProgress(upload'.job).progress >= getJobProgress(upload.job).progress
       /\ IsProcessed(upload.job.status) => IsProcessed(upload'.job.status)]_vars

\* C21: every job created by POST /api/upload eventually reaches status
\* 'completed' or 'failed' unless it is removed first, the awaited calls
\* settling; a file whose parsing or ingestion throws is marked 'failed', and
\* the remaining files are still processed, one at a time, in upload order.
C21_EveryJobFinishes ==
  /\ (upload.pc # "none") ~> (IsProcessed(upload.job.status) \/ ~upload.inMap)
  /\ [](upload.inMap =>
          /\ \A k \in 1..Len(upload.outcomes) :
               upload.outcomes[k] = "failed" => upload.job.files[k].status = "failed"
          /\ Cardinality({k \in 1..Len(upload.job.files) :
                            upload.job.files[k].status = "processing"}) <= 1
          /\ upload.pc = "file" => Len(upload.outcomes) = upload.i - 1
          /\ (upload.pc = "done" /\ upload.outcomes # <<>>) =>
               Len(upload.outcomes) = Len(upload.names))

\* The counters of one job object and of the progress report made from it.
JobCountersAgree(job) ==
  LET processed == Cardinality({k \in 1..Len(job.files) :
                                  IsProcessed(job.files[k].status)})
      report    == getJobProgress(job)
  IN /\ job.processedFiles = processed
     /\ 0 <= job.processedFiles
     /\ job.processedFiles <= job.totalFiles
     /\ job.totalFiles = Len(job.files)
     /\ report.completed + report.failed = job.processedFiles
     /\ 0 <= report.progress
     /\ report.progress <= 100

\* C22: in every reachable state of an upload job, processedFiles is the
\* number of its files that are 'completed' or 'failed',
\* 0 <= processedFiles <= totalFiles = number of files, and getJobProgress
\* reports completed + failed = processedFiles and 0 <= progress <= 100.
C22_CountersAgree ==
  /\ upload.pc # "none" => JobCountersAgree(upload.job)
  /\ upload.other.created => JobCountersAgree(upload.other.job)
  /\ upload.seen.http = 200 =>
       /\ upload.seen.data.completed + upload.seen.data.failed <= upload.seen.data.total
       /\ upload.seen.data.progress \in 0..100

\* C22 witness: with a repeated file name, a finished file was set back to
\* 'processing' and the job was observed with one of three files processed.
C22_Witness ==
  /\ upload.inMap
  /\ upload.names = <<"a.md", "b.md", "a.md">>
  /\ upload.outcomes = <<"completed", "failed">>
  /\ upload.job.files[1].status = "processing"
  /\ upload.job.processedFiles = 1
  /\ upload.seen.http = 200
  /\ upload.seen.data.progress = 33
  /\ upload.seen.data.failed = 1

\* C23: for each client ip key, checkRateLimit admits no more than 10
\* requests within any time interval of 60 000 ms, wherever it starts.
C23_TenPerAnyMinute ==
  \A ip \in DOMAIN rlWindow :
    \A from \in DOMAIN rlWindow[ip] :
      AdmittedWithin(rlWindow[ip], from, from + RATE_WINDOW) <= RATE_LIMIT

\* C24: an upload job is removed from the job map one hour after its
\* creation, whatever its status; from then on GET /api/upload/status/:jobId
\* answers 404, and the updateJobStatus / updateFileStatus calls of background
\* processing that is still running change nothing and do not re-create the
\* job, while no other job's entry is affected.
C24_RemovedAfterOneHour ==
  /\ [](/\ upload.pc # "none" =>
             (upload.inMap <=> upload.now - upload.createdAt < JOB_TTL_MS)
        /\ upload.other.created =>
             (upload.other.inMap <=> upload.now - upload.other.createdAt < JOB_TTL_MS))
  /\ [][/\ (upload.pc # "none" /\ ~upload.inMap) =>
             /\ ~upload'.inMap
             /\ upload'.job = upload.job
             /\ upload'.seen # upload.seen =>
                  upload'.seen = [http |-> 404, data |-> NotSeen]
        /\ upload.other.created =>
             /\ upload'.other.job = upload.other.job
             /\ upload'.now = upload.now => upload'.other = upload.other]_vars

\* C24 witness: the job was removed while its only file was being processed;
\* the file then settled, the job object still says 'processing', GET
\* answered 404, and a job created later is still in the map.
C24_Witness ==
  /\ upload.pc = "done"
  /\ ~upload.inMap
  /\ upload.outcomes = <<"completed">>
  /\ upload.job.status = "processing"
  /\ upload.job.files[1].status = "processing"
  /\ upload.seen.http = 404
  /\ upload.other.created /\ upload.other.inMap
  /\ upload.other.createdAt > upload.createdAt

\* A run of a test produced output: it was executed to the end and its
\* stdout was compared (status 'passed' or 'failed').
ProducedOutput(result) == result.status \in {"passed", "failed"}

\* A run of a test ended in an error: it has status 'error'.
EndedInError(result) == result.status = "error"

\* C25: compareTests counts a test under comparison.matching only when both
\* runs of it produced output and the outputs are equal after normalisation,
\* and under comparison.errors when either run ended in an error;
\* matching + different + errors is the number of tests, and success is true
\* exactly when every test is counted as matching.
C25_MatchingMeansEqualOutputs ==
  tr.pc = "compared" =>
    LET cmp == tr.cmp
        n   == Len(tr.tests)
    IN /\ \A i \in 1..n :
            /\ cmp.counted[i] = "matching" =>
                 /\ ProducedOutput(cmp.originalResults[i])
                 /\ ProducedOutput(cmp.modernizedResults[i])
                 /\ normalizeOutput(cmp.originalResults[i].actualOutput) =
                      normalizeOutput(cmp.modernizedResults[i].actualOutput)
            /\ (EndedInError(cmp.originalResults[i]) \/
                EndedInError(cmp.modernizedResults[i])) => cmp.counted[i] = "errors"
       /\ cmp.comparison.matching + cmp.comparison.different + cmp.comparison.errors = n
       /\ cmp.success <=> cmp.comparison.matching = n

\* C26: runTests returns exactly one result per requested test, in request
\* order (results[i].testId = tests[i].id), also when the compiler throws for
\* some test; summary.total is the number of tests and
\* summary.passed + summary.failed + summary.errors = summary.total,
\* timeouts being counted under errors.
C26_OneResultPerTest ==
  tr.pc = "ran" =>
    LET run == tr.run
        n   == Len(tr.tests)
    IN /\ Len(run.results) = n
       /\ \A i \in 1..n : run.results[i].testId = tr.tests[i].id
       /\ \A i \in 1..n :
            (tr.tests[i].type = "io" /\ tr.origExecs[i].threw) =>
              run.results[i].status = "error"
       /\ run.summary.total = n
       /\ run.summary.passed + run.summary.failed + run.summary.errors
            = run.summary.total
       /\ run.summary.errors >=
            Cardinality({i \in 1..n : run.results[i].status = "timeout"})

\* C26 witness: of two tests the compiler threw for the first and the second
\* timed out; both are in the results, in order, counted under errors.
C26_Witness ==
  /\ tr.pc = "ran"
  /\ Len(tr.tests) = 2
  /\ tr.tests[1].type = "io" /\ tr.origExecs[1].threw
  /\ tr.tests[1].id # tr.tests[2].id
  /\ tr.run.results[1].status = "error"
  /\ tr.run.results[2].status = "timeout"
  /\ tr.run.summary.errors = 2
  /\ ~tr.run.success

====
